---- MODULE Spec2Model ----
(***************************************************************************)
(* A model of gpiosim (src/src/lib.rs): the configfs locator               *)
(* (find_configfs), activation (Builder::live, Sim::live,                  *)
(* Sim::setup_configfs, Sim::read_attrs) and teardown                      *)
(* (Sim::cleanup_configfs, run from Drop for Sim).                         *)
(*                                                                         *)
(* Every action is one system call (or one atomic operation) of one        *)
(* thread, so that the threads of a process interleave exactly where the   *)
(* code can be preempted.  The gpio-sim directory of configfs is the       *)
(* shared state: the set of directories below it and their attribute       *)
(* files.  A system call fails when the filesystem says so (a missing      *)
(* parent, an existing directory, a directory that still has children) and *)
(* may also fail for a reason outside the model (EPERM, EBUSY, ...), at    *)
(* most MaxFaults times in a behaviour.                                    *)
(***************************************************************************)
EXTENDS Integers, Sequences, FiniteSets, TLC

\* ------------------------------------------------------------------ bounds

\* The threads of the process that take simulators live.
Threads == {1, 2}

\* Calls of Builder::live a thread makes.
MaxLive == 2

\* System calls that fail for a reason outside the model.
MaxFaults == 1

\* ------------------------------------------------------- program constants

\* for _ in 0..10
PollBudget == 10

\* "/sys/kernel/config/gpio-sim", and the path derived from a configfs mount
\* that is not at the default place.
DefaultPath == "/sys/kernel/config/gpio-sim"
AltPath == "/mnt/cfg/gpio-sim"
Paths == {DefaultPath, AltPath}
DefaultMount == "/sys/kernel/config"
AltMount == "/mnt/cfg"

\* cfgfs.push("gpio-sim")
PushGpioSim(mp) ==
    CASE mp = DefaultMount -> DefaultPath
      [] mp = AltMount -> AltPath

None == 0 - 1

\* static NAME_COUNT: AtomicU32.  A u32 is <<high, low>>, two halves of 16
\* bits each, so that its whole range is within the integers of the checker;
\* fetch_add wraps around on overflow.
Half == 65536
U32Zero == <<0, 0>>
U32One == <<0, 1>>
U32Add(x, y) ==
    LET low == x[2] + y[2]
    IN  <<(x[1] + y[1] + (low \div Half)) % Half, low % Half>>

\* A number of calls, which does not wrap: <<high, low>> with any high.
CountAdd(x, y) ==
    LET low == x[2] + y[2]
    IN  <<x[1] + y[1] + (low \div Half), low % Half>>

NoCount == <<None, None>>

\* ---------------------------------------------------------------- helpers

MapPut(m, k, v) == [x \in DOMAIN m \cup {k} |-> IF x = k THEN v ELSE m[x]]
MapDel(m, K) == [x \in DOMAIN m \ K |-> m[x]]
EmptyMap == [x \in {} |-> 0]

\* --------------------------------------------------- configuration (Bank)

\* Bank::new(num_lines, label)
BankNew(n, label) ==
    [num_lines |-> n, label |-> label, names |-> EmptyMap, hogs |-> EmptyMap]

\* A name that keeps the name the offset already has.
BankNameKeepsFirst(b, offset, name) ==
    IF offset \in DOMAIN b.names THEN b ELSE [b EXCEPT !.names = MapPut(b.names, offset, name)]

\* Bank::name: self.names.insert(offset, name)
BankName(b, offset, name) == [b EXCEPT !.names = MapPut(b.names, offset, name)]

\* Bank::unname: self.names.remove(&offset)
BankUnname(b, offset) == [b EXCEPT !.names = MapDel(b.names, {offset})]

\* A hog that keeps the consumer the offset already has.
BankHogKeepsConsumer(b, offset, consumer, direction) ==
    [b EXCEPT !.hogs =
        MapPut(b.hogs, offset,
               [consumer |-> IF offset \in DOMAIN b.hogs THEN b.hogs[offset].consumer
                             ELSE consumer,
                direction |-> direction])]

\* Bank::hog: self.hogs.insert(offset, Hog { direction, consumer })
BankHog(b, offset, consumer, direction) ==
    [b EXCEPT !.hogs =
        MapPut(b.hogs, offset, [consumer |-> consumer, direction |-> direction])]

\* An unhog that removes nothing.
BankUnhogKeeps(b, offset) == b

\* Bank::unhog: self.hogs.remove(&offset)
BankUnhog(b, offset) == [b EXCEPT !.hogs = MapDel(b.hogs, {offset})]

\* An as_str that gives the name of the variant.
DirectionDebug(d) == d

\* Direction::as_str
DirectionAsStr(d) ==
    CASE d = "Input" -> "input"
      [] d = "OutputHigh" -> "output-high"
      [] d = "OutputLow" -> "output-low"

\* format!("{}", c.cfg.num_lines), for the line counts of the model
FormatU32(n) ==
    CASE n = 0 -> "0" [] n = 1 -> "1" [] n = 2 -> "2" [] n = 3 -> "3"
      [] n = 4 -> "4" [] n = 8 -> "8" [] n = 12 -> "12" [] n = 42 -> "42"

\* The banks the builders of the model are made of: a line that is named and
\* hogged, a bank with a named line and another, hogged, line, and a bank
\* with no line configured.
BankBoth == BankHog(BankName(BankNew(4, "fish"), 1, "apple"), 1, "breath", "Input")
BankSplit ==
    BankHog(BankName(BankNew(8, "babel"), 3, "banana"), 1, "hogster", "OutputHigh")
BankPlain == BankNew(12, "simpleton")

\* A bank some assignments of which were taken back before activation: the
\* offsets whose name was removed with unname, those whose hog was removed
\* with unhog, and the bank that is left, with one hog.
Unnamed == {3}
Unhogged == {0, 3}
BankLow ==
    BankUnname(
        BankUnhog(
            BankUnhog(
                BankHog(BankHog(BankName(BankHog(BankNew(4, "low"), 2, "breath", "OutputLow"),
                                         3, "pear"),
                                0, "gone", "Input"),
                        3, "gone", "OutputHigh"),
                0),
            3),
        3)

\* A simulator name.  A name given with with_name is <<text, NoCount, {}>>; a
\* name made by unique_name is <<app, n, instance>>: "<app>-p<pid>-<n>" with
\* "-<instance>" after it when there is one.  instance is Option<&str>, a set
\* of at most one text.  For one app and one instance the text is one-to-one
\* in n, the decimal digits of the counter.
AppName == "gpiosim"
NameA == <<"a", NoCount, {}>>
NameB == <<"b", NoCount, {}>>

\* Builder { name, banks }: name is Option<String>, a set of at most one name.
Builders ==
    { [name |-> {NameA}, banks |-> <<BankBoth>>],
      [name |-> {NameA}, banks |-> <<BankSplit, BankPlain>>],
      [name |-> {NameB}, banks |-> <<BankLow>>],
      [name |-> {}, banks |-> <<BankPlain>>] }

\* ------------------------------------------------------------ the filesystem

\* A directory below gpio-sim: <sim>, <sim>/bank<i>, <sim>/bank<i>/line<o>,
\* <sim>/bank<i>/line<o>/hog.  format!("bank{i}") and format!("line{offset}")
\* are one-to-one, so a directory is named by the numbers.
SimDir(name) == <<name, None, None, 0>>
BankDir(name, i) == <<name, i, None, 0>>
LineDir(name, i, o) == <<name, i, o, 0>>
HogDir(name, i, o) == <<name, i, o, 1>>

\* Path::parent, for the directories below the simulator's
Parent(d) ==
    IF d[4] = 1 THEN <<d[1], d[2], d[3], 0>>
    ELSE IF d[3] # None THEN <<d[1], d[2], None, 0>>
    ELSE <<d[1], None, None, 0>>

IsTop(d) == d[2] = None

\* Lines of /proc/mounts.
ProcLine == <<"proc", "/proc", "proc", "rw,relatime", "0", "0">>
ConfigfsLine(mp) == <<"configfs", mp, "configfs", "rw,relatime", "0", "0">>

\* What the module-load command may write to its standard error.
StderrTexts == {"modprobe: FATAL: Module gpio-sim not found", ""}

VARIABLES
    dirs,        \* the directories below gpio-sim, each with the thread that made it
    attrs,       \* <<directory, file>> -> the content of the attribute file
    sysfs,       \* <<sysfs_path, offset, file>> -> the content of a control file
    loaded,      \* the gpio-sim module is loaded
    mounts,      \* /proc/mounts: a sequence of lines, each a sequence of words
    NAME_COUNT,  \* the counter of unique_name
    issued,      \* the calls of unique_name so far, and the names they made
    faults,      \* disturbances from outside the model that may still happen
    modprobes,   \* invocations of modprobe by the process
    pc,          \* per thread: where it is
    builder,     \* per thread: its Builder
    sim,         \* per thread: the Sim it is building or dropping
    held,        \* per thread: the live Sims it holds
    torn,        \* the names of the simulators whose teardown has returned
    lv,          \* per thread: the locals of the call it is in
    result,      \* per thread: what its last call returned
    calls,       \* per thread: calls of Builder::live it may still make
    ops          \* per thread: the changes the current call made to the filesystem

vars == <<dirs, attrs, sysfs, loaded, mounts, NAME_COUNT, issued, faults, modprobes,
          pc, builder, sim, held, torn, lv, result, calls, ops>>

fsVars == <<dirs, attrs>>
envVars == <<loaded, mounts>>

\* ------------------------------------------------------------ environment

Mounted(mp) ==
    \E k \in 1..Len(mounts) : mounts[k][2] = mp /\ mounts[k][3] = "configfs"

MountOf(p) == IF p = DefaultPath THEN DefaultMount ELSE AltMount

\* Path::exists of a gpio-sim directory: the module has registered its
\* configfs subsystem and configfs is mounted there.
PathExists(p) == loaded /\ Mounted(MountOf(p))

DirExists(d) == d \in DOMAIN dirs
HasChild(d) == \E c \in DOMAIN dirs : c # d /\ Parent(c) = d

\* fs::create_dir succeeds when the parent is there and the directory is not.
CanCreate(d) == ~DirExists(d) /\ (IsTop(d) \/ DirExists(Parent(d)))

\* fs::remove_dir (rmdir on configfs) succeeds on a directory without
\* subdirectories; the attribute files are the kernel's and go with it.
CanRemove(d) == DirExists(d) /\ ~HasChild(d)

\* fs::write of an attribute file succeeds when its directory is there.
CanWrite(d) == DirExists(d)

CanFault == faults > 0

\* Whether a system call that could succeed does (TRUE) or fails for a reason
\* outside the model (FALSE); one that cannot succeed fails.
Outcomes(can) == IF can THEN (IF CanFault THEN {TRUE, FALSE} ELSE {TRUE}) ELSE {FALSE}
Charge(can, ok) == faults' = IF can /\ ~ok THEN faults - 1 ELSE faults

Mkdir(t, d) == dirs' = MapPut(dirs, d, t)
Rmdir(d) ==
    /\ dirs' = MapDel(dirs, {d})
    /\ attrs' = MapDel(attrs, {k \in DOMAIN attrs : k[1] = d})
WriteFile(d, file, data) == attrs' = MapPut(attrs, <<d, file>>, data)
Did(t, kind, d, file) == ops' = [ops EXCEPT ![t] = @ \cup {<<kind, d, file>>}]

\* The kernel's side of the live attribute: writing "1" makes the devices and
\* the dev_name and chip_name attributes appear, writing "0" removes them.
DevNameOf(d) == <<"gpio-sim", d[1]>>
ChipNameOf(d) == <<"gpiochip", d[1], d[2]>>
KernelLive(top, data) ==
    LET banks == {b \in DOMAIN dirs : b[1] = top[1] /\ b[2] # None /\ b[3] = None}
        made == {<<top, "dev_name">>} \cup {<<b, "chip_name">> : b \in banks}
        base == MapDel(attrs, made)
    IN  IF data = "1"
        THEN [k \in DOMAIN base \cup made \cup {<<top, "live">>} |->
                IF k = <<top, "live">> THEN "1"
                ELSE IF k \in made
                     THEN (IF k[2] = "dev_name" THEN DevNameOf(top) ELSE ChipNameOf(k[1]))
                     ELSE base[k]]
        ELSE MapPut(base, <<top, "live">>, data)

\* ------------------------------------------------------- results and locals

NoName == <<"", NoCount, {}>>

\* Result<Sim>: Ok, Err(e) with e's payload, or the unwinding of a panic.
Res(kind, err, name, stderr) ==
    [kind |-> kind, err |-> err, name |-> name, stderr |-> stderr]
NoResult == Res("None", "", NoName, "")
Ok(name) == Res("Ok", "", name, "")
Err(e) == Res("Err", e, NoName, "")
Panic == Res("Panic", "symlink", NoName, "")
Dropped == Res("Dropped", "", NoName, "")

\* OsString::from_vec(output.stderr): the bytes, unchanged
OsStringFromVec(bytes) == bytes

NoSim == [some |-> FALSE, name |-> NoName, chips |-> <<>>, released |-> FALSE]

\* Chip { cfg: b.clone(), dev_path, chip_name, dev_name, sysfs_path: default }
NoId == <<>>
NewChip(b) ==
    [cfg |-> b, dev_path |-> NoId, chip_name |-> NoId, dev_name |-> NoId,
     sysfs_path |-> NoId]

\* Chips pushed from the last bank to the first.
ChipsReversed(banks) == [k \in 1..Len(banks) |-> NewChip(banks[Len(banks) + 1 - k])]

\* for b in &self.banks { sim.chips.push(Chip { cfg: b.clone(), .. }) }
ChipsOf(banks) == [k \in 1..Len(banks) |-> NewChip(banks[k])]

NoneIssued == [calls |-> U32Zero, log |-> {}]

LvInit ==
    [name |-> NoName, path |-> "", cfgfs |-> "", attempt |-> 0, nmod |-> 0,
     sleeps |-> 0, reads |-> 0, seen |-> {}, i |-> 0, todo |-> {}, o |-> None,
     after |-> NoResult, dev_name |-> NoId, chip_name |-> NoId, meta |-> <<>>,
     status |-> None, stderr |-> ""]

\* A process in which thread 1 takes simulators live and thread 2 does not.
Init ==
    /\ dirs = EmptyMap
    /\ attrs = EmptyMap
    /\ sysfs = EmptyMap
    /\ loaded \in BOOLEAN
    /\ mounts \in {<<ProcLine>>, <<ProcLine, ConfigfsLine(AltMount)>>,
                   <<ProcLine, ConfigfsLine(DefaultMount)>>}
    /\ NAME_COUNT = U32Zero
    /\ issued = NoneIssued
    /\ faults = MaxFaults
    /\ modprobes = 0
    /\ pc = [t \in Threads |-> "idle"]
    /\ builder \in {b \in [Threads -> Builders] : b[2] = b[1]}
    /\ sim = [t \in Threads |-> NoSim]
    /\ held = [t \in Threads |-> {}]
    /\ torn = {}
    /\ lv = [t \in Threads |-> LvInit]
    /\ result = [t \in Threads |-> NoResult]
    /\ calls = [t \in Threads |-> IF t = 1 THEN MaxLive ELSE 0]
    /\ ops = [t \in Threads |-> {}]

\* ------------------------------------------------------------- control flow

\* What a step of a call leaves alone.
Quiet ==
    UNCHANGED <<sysfs, loaded, mounts, NAME_COUNT, issued, modprobes, builder, calls>>
NoFs == UNCHANGED <<dirs, attrs, ops>>
Stay == UNCHANGED <<result, sim, held, torn>>

Goto(t, p) == pc' = [pc EXCEPT ![t] = p]
Set(t, r) == lv' = [lv EXCEPT ![t] = r]

\* What is left of a call's locals once it has returned: the record of what
\* the call did.
Past(l) ==
    [LvInit EXCEPT !.name = l.name, !.path = l.path, !.attempt = l.attempt,
                   !.nmod = l.nmod, !.sleeps = l.sleeps, !.reads = l.reads,
                   !.seen = l.seen, !.meta = l.meta, !.status = l.status,
                   !.stderr = l.stderr]

\* The call of thread t returns r to its caller; no Sim is left behind.  A
\* panic ends the thread.
Return(t, r) ==
    /\ pc' = [pc EXCEPT ![t] = IF r.kind = "Panic" THEN "dead" ELSE "idle"]
    /\ result' = [result EXCEPT ![t] = r]
    /\ sim' = [sim EXCEPT ![t] = NoSim]
    /\ UNCHANGED held

\* The same, keeping the locals l as the record of the call.
ReturnWith(t, r, l) ==
    Return(t, r) /\ lv' = [lv EXCEPT ![t] = Past(l)] /\ UNCHANGED torn

\* A Builder::live that has its Sim before it creates the directory: the Sim
\* is dropped, and torn down, when a step before setup fails.
FailDrops(t, e) ==
    /\ sim' = [sim EXCEPT ![t] =
                 [some |-> TRUE, name |-> lv[t].name,
                  chips |-> [k \in 1..Len(builder[t].banks) |->
                               [cfg |-> builder[t].banks[k], dev_path |-> <<>>,
                                chip_name |-> <<>>, dev_name |-> <<>>,
                                sysfs_path |-> <<>>]],
                  released |-> FALSE]]
    /\ pc' = [pc EXCEPT ![t] = "c_exists"]
    /\ lv' = [lv EXCEPT ![t].after = e]
    /\ UNCHANGED <<result, held, torn>>

\* `?` in Builder::live before the Sim exists: the error goes to the caller.
Fail(t, e) == ReturnWith(t, e, lv[t])

\* A Builder::live that forgets its Sim when Sim::live fails: the error goes to
\* the caller and nothing is torn down.
FailSimForgets(t, e) == ReturnWith(t, e, lv[t])

\* `?` in Sim::live, and the panic of read_attrs: Builder::live's `sim` goes
\* out of scope, so Drop for Sim runs cleanup_configfs, and then the error (or
\* the panic) reaches the caller.
FailSim(t, e) ==
    /\ pc' = [pc EXCEPT ![t] = "c_exists"]
    /\ lv' = [lv EXCEPT ![t].after = e]
    /\ Stay

\* ---------------------------------------------------------------- Builder::live

\* unique_name: the name that format! makes of app, the value that
\* NAME_COUNT.fetch_add(1, Ordering::Relaxed) returns, and instance.
UniqueName(app, instance) == <<app, NAME_COUNT, instance>>
FetchAdd == NAME_COUNT' = U32Add(NAME_COUNT, U32One)

\* The record of a call of unique_name: which call it was, counting from 0,
\* and the name it made.
LogName(name) ==
    issued' = [calls |-> CountAdd(issued.calls, U32One),
               log |-> issued.log \cup {[k |-> issued.calls, name |-> name]}]

\* let name = match &self.name { Some(n) => n.clone(), None => default_name() }
LiveStart(t) ==
    /\ pc[t] = "idle"
    /\ calls[t] > 0
    /\ calls' = [calls EXCEPT ![t] = @ - 1]
    /\ IF builder[t].name # {}
       THEN /\ Set(t, [LvInit EXCEPT !.name = CHOOSE n \in builder[t].name : TRUE])
            /\ UNCHANGED <<NAME_COUNT, issued>>
       ELSE /\ Set(t, [LvInit EXCEPT !.name = UniqueName(AppName, {})])
            /\ FetchAdd
            /\ LogName(UniqueName(AppName, {}))
    /\ Goto(t, "find")
    /\ result' = [result EXCEPT ![t] = NoResult]
    /\ ops' = [ops EXCEPT ![t] = {}]
    /\ UNCHANGED <<dirs, attrs, sysfs, loaded, mounts, faults, modprobes, builder,
                   sim, held, torn>>

\* A find_configfs without the first check: it loads the module whether the
\* default path is there or not.
FindSlow(t) ==
    /\ pc[t] = "find"
    /\ Goto(t, "modprobe")
    /\ UNCHANGED lv
    /\ Quiet /\ NoFs /\ Stay /\ UNCHANGED faults

\* find_configfs: if path.exists() { return Ok(path) }
FindFast(t) ==
    /\ pc[t] = "find"
    /\ IF PathExists(DefaultPath)
       THEN /\ Set(t, [lv[t] EXCEPT !.path = DefaultPath, !.seen = @ \cup {DefaultPath}])
            /\ Goto(t, "exists")
       ELSE /\ Goto(t, "modprobe")
            /\ UNCHANGED lv
    /\ Quiet /\ NoFs /\ Stay /\ UNCHANGED faults

\* A find_configfs that does not look at the exit status of modprobe.
ModprobeIgnoresStatus(status) == "poll"

\* What find_configfs does with the exit status of modprobe:
\* if !output.status.success() { return Err(ModuleLoadError(..)) }
ModprobeNext(status) == IF status = 0 THEN "poll" ELSE "return"

\* process::Command::new("modprobe").arg("gpio-sim").output(): the command
\* cannot be run, or it exits with a status (0: the module is loaded) and
\* what it wrote to its standard error; status and stderr keep the output.
Modprobe(t) ==
    /\ pc[t] = "modprobe"
    /\ modprobes' = modprobes + 1
    /\ \/ /\ ReturnWith(t, Err("CommandError"), [lv[t] EXCEPT !.nmod = @ + 1])
          /\ UNCHANGED loaded
       \/ \E bytes \in StderrTexts, status \in {0, 1} :
             LET l == [lv[t] EXCEPT !.nmod = @ + 1, !.status = status,
                                    !.stderr = bytes]
             IN  /\ loaded' = IF status = 0 THEN TRUE ELSE loaded
                 /\ IF ModprobeNext(status) = "poll"
                    THEN Set(t, l) /\ Goto(t, "poll") /\ Stay
                    ELSE ReturnWith(t, Res("Err", "ModuleLoadError", NoName,
                                           OsStringFromVec(bytes)), l)
    /\ NoFs
    /\ UNCHANGED <<sysfs, mounts, NAME_COUNT, issued, faults, builder, calls>>

\* A configfs_mountpoint that takes every line whose third word is
\* "configfs", however few words follow: words.len() >= 3
ConfigfsLinesAnyLength(table) ==
    {k \in 1..Len(table) : Len(table[k]) >= 3 /\ table[k][3] = "configfs"}

\* configfs_mountpoint: the second word of the first line of /proc/mounts
\* that has six words or more and "configfs" as its third; None (the empty
\* set) when there is no such line or the file cannot be opened.
ConfigfsLines(table) ==
    {k \in 1..Len(table) : Len(table[k]) >= 6 /\ table[k][3] = "configfs"}
ConfigfsMountpoint(table, opened) ==
    IF opened /\ ConfigfsLines(table) # {}
    THEN LET k == CHOOSE k \in ConfigfsLines(table) :
                     \A j \in ConfigfsLines(table) : k <= j
         IN  {table[k][2]}
    ELSE {}

\* The path whose existence decides whether the derived path is returned:
\* `if path.exists() { return Ok(cfgfs) }`.
DerivedProbe(path, cfgfs) == path

\* for _ in 0..10 { if path.exists() { return Ok(path) } ... }
PollPath(t) ==
    /\ pc[t] = "poll"
    /\ IF PathExists(DefaultPath)
       THEN /\ Set(t, [lv[t] EXCEPT !.path = DefaultPath, !.seen = @ \cup {DefaultPath}])
            /\ Goto(t, "exists")
       ELSE /\ Goto(t, "mounts")
            /\ UNCHANGED lv
    /\ Quiet /\ NoFs /\ Stay /\ UNCHANGED faults

\* if let Some(mut cfgfs) = configfs_mountpoint() { cfgfs.push("gpio-sim"); ... }
PollMounts(t) ==
    /\ pc[t] = "mounts"
    /\ \E opened \in Outcomes(TRUE) :
         /\ Charge(TRUE, opened)
         /\ LET mp == ConfigfsMountpoint(mounts, opened)
            IN  IF mp # {}
                THEN /\ Set(t, [lv[t] EXCEPT !.reads = @ + 1,
                                   !.cfgfs = PushGpioSim(CHOOSE m \in mp : TRUE)])
                     /\ Goto(t, "derived")
                ELSE /\ Set(t, [lv[t] EXCEPT !.reads = @ + 1])
                     /\ Goto(t, "sleep")
    /\ Quiet /\ NoFs /\ Stay

\* if path.exists() { return Ok(cfgfs) }
PollDerived(t) ==
    /\ pc[t] = "derived"
    /\ LET probe == DerivedProbe(DefaultPath, lv[t].cfgfs)
       IN  IF PathExists(probe)
           THEN /\ Set(t, [lv[t] EXCEPT !.path = lv[t].cfgfs, !.seen = @ \cup {probe}])
                /\ Goto(t, "exists")
           ELSE /\ Goto(t, "sleep")
                /\ UNCHANGED lv
    /\ Quiet /\ NoFs /\ Stay /\ UNCHANGED faults

\* A loop that makes one attempt more: for _ in 0..=10
PollAttemptsInclusive == PollBudget + 1

\* The attempts the loop makes before it gives up: for _ in 0..10
PollAttempts == PollBudget

\* A loop that has modprobe inside: every further attempt runs it again.
PollSleepReloads(t) ==
    /\ pc[t] = "sleep"
    /\ LET l == [lv[t] EXCEPT !.sleeps = @ + 1, !.attempt = @ + 1]
       IN  IF l.attempt >= PollBudget
           THEN ReturnWith(t, Err("ConfigfsNotFound"), l)
           ELSE Set(t, l) /\ Goto(t, "modprobe") /\ Stay
    /\ Quiet /\ NoFs /\ UNCHANGED faults

\* sleep(Duration::from_millis(100)), and after the last attempt
\* Err(Error::ConfigfsNotFound)
PollSleep(t) ==
    /\ pc[t] = "sleep"
    /\ LET l == [lv[t] EXCEPT !.sleeps = @ + 1, !.attempt = @ + 1]
       IN  IF l.attempt >= PollAttempts
           THEN ReturnWith(t, Err("ConfigfsNotFound"), l)
           ELSE Set(t, l) /\ Goto(t, "poll") /\ Stay
    /\ Quiet /\ NoFs /\ UNCHANGED faults

\* A Builder::live that makes its Sim before it looks for the directory: the
\* Sim that goes out of scope with the error tears the directory down.
SimExistsDrops(t) ==
    /\ pc[t] = "exists"
    /\ IF DirExists(SimDir(lv[t].name))
       THEN /\ sim' = [sim EXCEPT ![t] =
                        [some |-> TRUE, name |-> lv[t].name,
                         chips |-> ChipsOf(builder[t].banks), released |-> FALSE]]
            /\ pc' = [pc EXCEPT ![t] = "c_exists"]
            /\ lv' = [lv EXCEPT ![t].after =
                                   Res("Err", "SimulatorExists", lv[t].name, "")]
            /\ UNCHANGED <<result, held, torn>>
       ELSE Goto(t, "mkdir") /\ UNCHANGED lv /\ Stay
    /\ Quiet /\ NoFs /\ UNCHANGED faults

\* if sim_dir.exists() { return Err(Error::SimulatorExists(name)) }
SimExists(t) ==
    /\ pc[t] = "exists"
    /\ IF DirExists(SimDir(lv[t].name))
       THEN Fail(t, Res("Err", "SimulatorExists", lv[t].name, ""))
       ELSE Goto(t, "mkdir") /\ UNCHANGED lv /\ Stay
    /\ Quiet /\ NoFs /\ UNCHANGED faults

\* --------------------------------------------- where setup_configfs goes next

Step(p, i, todo) == [pc |-> p, i |-> i, todo |-> todo]

\* for (i, c) in self.chips.iter().enumerate(), i from 0; after the last chip
\* Sim::live writes the live attribute.
StartBank(chips, i) ==
    IF i < Len(chips) THEN Step("bank", i, {}) ELSE Step("live1", i, {})

\* A setup_configfs without its loop over the hogs.
StartHogsSkipped(chips, i) == StartBank(chips, i + 1)

\* for (offset, hog) in &c.cfg.hogs
StartHogs(chips, i) ==
    IF DOMAIN chips[i + 1].cfg.hogs # {}
    THEN Step("hog_line", i, DOMAIN chips[i + 1].cfg.hogs)
    ELSE StartBank(chips, i + 1)

\* for (offset, name) in &c.cfg.names
StartNames(chips, i) ==
    IF DOMAIN chips[i + 1].cfg.names # {}
    THEN Step("name_dir", i, DOMAIN chips[i + 1].cfg.names)
    ELSE StartHogs(chips, i)

Jump(t, k) ==
    /\ pc' = [pc EXCEPT ![t] = k.pc]
    /\ lv' = [lv EXCEPT ![t].i = k.i, ![t].todo = k.todo, ![t].o = None]

\* A Sim::live that works in one directory whatever the name of the Sim.
TopShared(t) == SimDir(NameA)

\* self.dir, the directory of the Sim
Top(t) == SimDir(sim[t].name)
CurBank(t) == BankDir(sim[t].name, lv[t].i)
CurLine(t) == LineDir(sim[t].name, lv[t].i, lv[t].o)
CurHog(t) == HogDir(sim[t].name, lv[t].i, lv[t].o)
CurCfg(t) == sim[t].chips[lv[t].i + 1].cfg

\* fs::create_dir(&sim_dir)?; let mut sim = Sim { name, chips, dir: sim_dir }
\* with one Chip per bank of the builder.
CreateSimDir(t) ==
    /\ pc[t] = "mkdir"
    /\ LET d == SimDir(lv[t].name)
           chips == ChipsOf(builder[t].banks)
       IN \E ok \in Outcomes(CanCreate(d)) :
            /\ Charge(CanCreate(d), ok)
            /\ IF ok
               THEN /\ Mkdir(t, d)
                    /\ Did(t, "mkdir", d, "")
                    /\ sim' = [sim EXCEPT ![t] =
                                 [some |-> TRUE, name |-> lv[t].name, chips |-> chips,
                                  released |-> FALSE]]
                    /\ Jump(t, StartBank(chips, 0))
                    /\ UNCHANGED <<result, held, torn>>
               ELSE /\ Fail(t, Err("IoError"))
                    /\ UNCHANGED <<dirs, ops>>
    /\ Quiet /\ UNCHANGED attrs

\* One fs::create_dir(d)? of setup_configfs, then `next`.
SetupMkdir(t, d, next) ==
    /\ \E ok \in Outcomes(CanCreate(d)) :
         /\ Charge(CanCreate(d), ok)
         /\ IF ok
            THEN /\ Mkdir(t, d)
                 /\ Did(t, "mkdir", d, "")
                 /\ next
                 /\ Stay
            ELSE /\ FailSim(t, Err("IoError"))
                 /\ UNCHANGED <<dirs, ops>>
    /\ Quiet /\ UNCHANGED attrs

\* One write_attr(d, file, data)? of setup_configfs, then `next`.
SetupWrite(t, d, file, data, next) ==
    /\ \E ok \in Outcomes(CanWrite(d)) :
         /\ Charge(CanWrite(d), ok)
         /\ IF ok
            THEN /\ WriteFile(d, file, data)
                 /\ Did(t, "write", d, file)
                 /\ next
                 /\ Stay
            ELSE /\ FailSim(t, Err("IoError"))
                 /\ UNCHANGED <<attrs, ops>>
    /\ Quiet /\ UNCHANGED dirs

\* fs::create_dir(&bank_dir)?
CreateBank(t) ==
    /\ pc[t] = "bank"
    /\ SetupMkdir(t, CurBank(t), Goto(t, "label") /\ UNCHANGED lv)

\* write_attr(&bank_dir, "label", c.cfg.label.as_bytes())?
WriteLabel(t) ==
    /\ pc[t] = "label"
    /\ SetupWrite(t, CurBank(t), "label", CurCfg(t).label,
                  Goto(t, "num_lines") /\ UNCHANGED lv)

\* write_attr(&bank_dir, "num_lines", format!("{}", c.cfg.num_lines))?
WriteNumLines(t) ==
    /\ pc[t] = "num_lines"
    /\ SetupWrite(t, CurBank(t), "num_lines", FormatU32(CurCfg(t).num_lines),
                  Jump(t, StartNames(sim[t].chips, lv[t].i)))

\* fs::create_dir(&line_dir)? for the next (offset, name) of the map, whose
\* order of iteration is not specified
CreateNameLine(t) ==
    /\ pc[t] = "name_dir"
    /\ \E o \in lv[t].todo :
         SetupMkdir(t, LineDir(sim[t].name, lv[t].i, o),
                    Goto(t, "name_attr") /\ Set(t, [lv[t] EXCEPT !.o = o]))

\* write_attr(&line_dir, "name", name.as_bytes())?
WriteLineName(t) ==
    /\ pc[t] = "name_attr"
    /\ LET rest == lv[t].todo \ {lv[t].o}
       IN SetupWrite(t, CurLine(t), "name", CurCfg(t).names[lv[t].o],
                     Jump(t, IF rest # {} THEN Step("name_dir", lv[t].i, rest)
                             ELSE StartHogs(sim[t].chips, lv[t].i)))

\* A hog loop without the check: it creates the line directory of every hog.
HogAlwaysNeedsLine(exists) == TRUE

\* Whether the hog loop creates the line directory: if !line_dir.exists()
HogNeedsLine(exists) == ~exists

\* if !line_dir.exists() for the next (offset, hog) of the map
HogLineExists(t) ==
    /\ pc[t] = "hog_line"
    /\ \E o \in lv[t].todo :
         /\ Set(t, [lv[t] EXCEPT !.o = o])
         /\ IF HogNeedsLine(DirExists(LineDir(sim[t].name, lv[t].i, o)))
            THEN Goto(t, "hog_mkline")
            ELSE Goto(t, "hog_dir")
    /\ Quiet /\ NoFs /\ Stay /\ UNCHANGED faults

\* fs::create_dir(&line_dir)?
CreateHogLine(t) ==
    /\ pc[t] = "hog_mkline"
    /\ SetupMkdir(t, CurLine(t), Goto(t, "hog_dir") /\ UNCHANGED lv)

\* fs::create_dir(&hog_dir)?
CreateHog(t) ==
    /\ pc[t] = "hog_dir"
    /\ SetupMkdir(t, CurHog(t), Goto(t, "hog_name") /\ UNCHANGED lv)

\* write_attr(&hog_dir, "name", hog.consumer.as_bytes())?
WriteHogName(t) ==
    /\ pc[t] = "hog_name"
    /\ SetupWrite(t, CurHog(t), "name", CurCfg(t).hogs[lv[t].o].consumer,
                  Goto(t, "hog_direction") /\ UNCHANGED lv)

\* write_attr(&hog_dir, "direction", hog.direction.as_str())?
WriteHogDirection(t) ==
    /\ pc[t] = "hog_direction"
    /\ LET rest == lv[t].todo \ {lv[t].o}
       IN SetupWrite(t, CurHog(t), "direction",
                     DirectionAsStr(CurCfg(t).hogs[lv[t].o].direction),
                     Jump(t, IF rest # {} THEN Step("hog_line", lv[t].i, rest)
                             ELSE StartBank(sim[t].chips, lv[t].i + 1)))

\* ------------------------------------------------------------------ Sim::live

\* write_attr(&self.dir, "live", "1")?
WriteLive(t) ==
    /\ pc[t] = "live1"
    /\ \E ok \in Outcomes(CanWrite(Top(t))) :
         /\ Charge(CanWrite(Top(t)), ok)
         /\ IF ok
            THEN /\ attrs' = KernelLive(Top(t), "1")
                 /\ Did(t, "write", Top(t), "live")
                 /\ Goto(t, "dev_name")
                 /\ UNCHANGED lv
                 /\ Stay
            ELSE /\ FailSim(t, Err("IoError"))
                 /\ UNCHANGED <<attrs, ops>>
    /\ Quiet /\ UNCHANGED dirs

CanRead(d, file) == <<d, file>> \in DOMAIN attrs

\* Sim::live returns Ok(()), so Builder::live returns Ok(sim): the caller
\* holds the Sim s from now on.
Live(t, s, l) ==
    /\ pc' = [pc EXCEPT ![t] = "idle"]
    /\ result' = [result EXCEPT ![t] = Ok(s.name)]
    /\ held' = [held EXCEPT ![t] = @ \cup {s}]
    /\ sim' = [sim EXCEPT ![t] = NoSim]
    /\ lv' = [lv EXCEPT ![t] = Past(l)]
    /\ UNCHANGED torn

\* let dev_name = read_attr(&self.dir, "dev_name")?
ReadDevName(t) ==
    /\ pc[t] = "dev_name"
    /\ LET can == CanRead(Top(t), "dev_name")
       IN \E ok \in Outcomes(can) :
            /\ Charge(can, ok)
            /\ IF ok
               THEN LET l == [lv[t] EXCEPT !.dev_name = attrs[<<Top(t), "dev_name">>],
                                           !.i = 0]
                    IN  IF Len(sim[t].chips) = 0
                        THEN Live(t, sim[t], l)
                        ELSE Set(t, l) /\ Goto(t, "chip_name") /\ Stay
               ELSE FailSim(t, Err("IoError"))
    /\ Quiet /\ NoFs

\* c.dev_path = "/dev".into(); c.dev_path.push(&chip_name)
DevPath(chip_name) == <<"/dev", chip_name>>

\* PathBuf::from("/sys/devices/platform") with dev_name and chip_name pushed
SysfsPath(dev_name, chip_name) == <<"/sys/devices/platform", dev_name, chip_name>>

\* let chip_name = read_attr(&bank_dir, "chip_name")?; c.dev_path = ...
ReadChipName(t) ==
    /\ pc[t] = "chip_name"
    /\ LET can == CanRead(CurBank(t), "chip_name")
       IN \E ok \in Outcomes(can) :
            /\ Charge(can, ok)
            /\ IF ok
               THEN LET cn == attrs[<<CurBank(t), "chip_name">>]
                    IN  /\ lv' = [lv EXCEPT ![t].chip_name = cn]
                        /\ sim' = [sim EXCEPT ![t].chips[lv[t].i + 1].dev_path =
                                      DevPath(cn)]
                        /\ Goto(t, "dev_path")
                        /\ UNCHANGED <<result, held, torn>>
               ELSE FailSim(t, Err("IoError"))
    /\ Quiet /\ NoFs

\* A read_attrs without the assertion.
AssertNothing(is_symlink) == TRUE

\* assert!(!metadata.is_symlink(), ...): whether the assertion passes
AssertNotSymlink(is_symlink) == ~is_symlink

\* let metadata = fs::symlink_metadata(&c.dev_path)?; the assertion; then the
\* chip's sysfs_path, chip_name and dev_name.  What /dev/<chip_name> is, a
\* device node or a symbolic link that masks it, is the system's choice; meta
\* keeps what the call saw.
CheckDevPath(t) ==
    /\ pc[t] = "dev_path"
    /\ \E ok \in Outcomes(TRUE), is_symlink \in BOOLEAN :
         /\ Charge(TRUE, ok)
         /\ IF ~ok
            THEN FailSim(t, Err("IoError"))
            ELSE IF ~AssertNotSymlink(is_symlink)
            THEN /\ pc' = [pc EXCEPT ![t] = "c_exists"]
                 /\ lv' = [lv EXCEPT ![t].after = Panic,
                                     ![t].meta = Append(@, is_symlink)]
                 /\ Stay
            ELSE LET s == [sim[t] EXCEPT !.chips[lv[t].i + 1] =
                              [@ EXCEPT !.sysfs_path =
                                            SysfsPath(lv[t].dev_name, lv[t].chip_name),
                                        !.chip_name = lv[t].chip_name,
                                        !.dev_name = lv[t].dev_name]]
                     l == [lv[t] EXCEPT !.i = @ + 1, !.meta = Append(@, is_symlink)]
                 IN  IF l.i < Len(s.chips)
                     THEN /\ sim' = [sim EXCEPT ![t] = s]
                          /\ Set(t, l)
                          /\ Goto(t, "chip_name")
                          /\ UNCHANGED <<result, held, torn>>
                     ELSE Live(t, s, l)
    /\ Quiet /\ NoFs

\* ------------------------------------------------------------- Drop for Sim

\* The caller lets go of a live Sim: drop runs cleanup_configfs.
DropSim(t) ==
    /\ pc[t] = "idle"
    /\ \E s \in held[t] :
         /\ sim' = [sim EXCEPT ![t] = s]
         /\ held' = [held EXCEPT ![t] = @ \ {s}]
    /\ Goto(t, "c_exists")
    /\ Set(t, [LvInit EXCEPT !.after = Dropped])
    /\ result' = [result EXCEPT ![t] = NoResult]
    /\ ops' = [ops EXCEPT ![t] = {}]
    /\ Quiet /\ UNCHANGED <<dirs, attrs, faults, torn>>

\* A cleanup_configfs that uses `?`: the first failure ends it.
Propagate(ok) == ok

\* `let _ = ...` drops the Result: cleanup goes on whether the call failed or not.
Discard(ok) == TRUE

\* A cleanup_configfs that does not wait for the directory to go.
WaitNever(exists) == TRUE

\* What the loop that waits for the directory to go waits for:
\* while self.dir.exists() {}
WaitOver(exists) == ~exists

\* cleanup_configfs is over: the error of the failed activation, its panic, or
\* the end of the drop reaches the caller.  A failure that `let _` had not
\* swallowed would surface here.
Finish(t, swallowed) ==
    /\ Return(t, IF swallowed THEN lv[t].after
                 ELSE Res("Err", "IoError", NoName, "cleanup"))
    /\ lv' = [lv EXCEPT ![t] = Past(lv[t])]
    /\ torn' = torn \cup {sim[t].name}

CStartBank(chips, i) ==
    IF i < Len(chips) THEN Step("c_bank", i, {}) ELSE Step("c_rmdir", i, {})

CStartNames(chips, i) ==
    IF DOMAIN chips[i + 1].cfg.names # {}
    THEN Step("c_name", i, DOMAIN chips[i + 1].cfg.names)
    ELSE Step("c_rmbank", i, {})

\* A cleanup_configfs without its loop over the hogs.
CStartHogsSkipped(chips, i) == CStartNames(chips, i)

\* for offset in c.cfg.hogs.keys()
CStartHogs(chips, i) ==
    IF DOMAIN chips[i + 1].cfg.hogs # {}
    THEN Step("c_hog", i, DOMAIN chips[i + 1].cfg.hogs)
    ELSE CStartNames(chips, i)

\* A cleanup_configfs without the early return.
CleanupAlways(t) ==
    /\ pc[t] = "c_exists"
    /\ Goto(t, "c_live0") /\ UNCHANGED lv /\ Stay
    /\ Quiet /\ NoFs /\ UNCHANGED faults

\* if !self.dir.exists() { return }
CleanupExists(t) ==
    /\ pc[t] = "c_exists"
    /\ IF ~DirExists(Top(t))
       THEN Finish(t, TRUE)
       ELSE Goto(t, "c_live0") /\ UNCHANGED lv /\ Stay
    /\ Quiet /\ NoFs /\ UNCHANGED faults

\* A cleanup_configfs that leaves the live attribute as it is.
CleanupLive0Skipped(t) ==
    /\ pc[t] = "c_live0"
    /\ Jump(t, CStartBank(sim[t].chips, 0)) /\ Stay
    /\ Quiet /\ NoFs /\ UNCHANGED faults

\* let _ = write_attr(&self.dir, "live", "0")
CleanupLive0(t) ==
    /\ pc[t] = "c_live0"
    /\ \E ok \in Outcomes(CanWrite(Top(t))) :
         /\ Charge(CanWrite(Top(t)), ok)
         /\ IF ok
            THEN attrs' = KernelLive(Top(t), "0") /\ Did(t, "write", Top(t), "live")
            ELSE UNCHANGED <<attrs, ops>>
         /\ IF Discard(ok)
            THEN Jump(t, CStartBank(sim[t].chips, 0)) /\ Stay
            ELSE Finish(t, FALSE)
    /\ Quiet /\ UNCHANGED dirs

\* if !bank_dir.exists() { continue }
CleanupBankExists(t) ==
    /\ pc[t] = "c_bank"
    /\ IF ~DirExists(CurBank(t))
       THEN Jump(t, CStartBank(sim[t].chips, lv[t].i + 1))
       ELSE Jump(t, CStartHogs(sim[t].chips, lv[t].i))
    /\ Quiet /\ NoFs /\ Stay /\ UNCHANGED faults

\* One `let _ = fs::remove_dir(d)` of cleanup_configfs, then `next`.
CleanupRmdir(t, d, next) ==
    /\ \E ok \in Outcomes(CanRemove(d)) :
         /\ Charge(CanRemove(d), ok)
         /\ IF ok
            THEN Rmdir(d) /\ Did(t, "rmdir", d, "")
            ELSE UNCHANGED <<dirs, attrs, ops>>
         /\ IF Discard(ok)
            THEN next /\ Stay
            ELSE Finish(t, FALSE)
    /\ Quiet

\* let _ = fs::remove_dir(hog_dir) for the next offset of c.cfg.hogs.keys()
CleanupRmHog(t) ==
    /\ pc[t] = "c_hog"
    /\ \E o \in lv[t].todo :
         CleanupRmdir(t, HogDir(sim[t].name, lv[t].i, o),
                      Goto(t, "c_hogline") /\ Set(t, [lv[t] EXCEPT !.o = o]))

\* let _ = fs::remove_dir(line_dir) of the hog loop
CleanupRmHogLine(t) ==
    /\ pc[t] = "c_hogline"
    /\ LET rest == lv[t].todo \ {lv[t].o}
       IN CleanupRmdir(t, CurLine(t),
                       Jump(t, IF rest # {} THEN Step("c_hog", lv[t].i, rest)
                               ELSE CStartNames(sim[t].chips, lv[t].i)))

\* let _ = fs::remove_dir(line_dir) for the next offset of c.cfg.names.keys()
CleanupRmNameLine(t) ==
    /\ pc[t] = "c_name"
    /\ \E o \in lv[t].todo :
         LET rest == lv[t].todo \ {o}
         IN CleanupRmdir(t, LineDir(sim[t].name, lv[t].i, o),
                         Jump(t, IF rest # {} THEN Step("c_name", lv[t].i, rest)
                                 ELSE Step("c_rmbank", lv[t].i, {})))

\* let _ = fs::remove_dir(bank_dir)
CleanupRmBank(t) ==
    /\ pc[t] = "c_rmbank"
    /\ CleanupRmdir(t, CurBank(t), Jump(t, CStartBank(sim[t].chips, lv[t].i + 1)))

\* let _ = fs::remove_dir(&self.dir)
CleanupRmSim(t) ==
    /\ pc[t] = "c_rmdir"
    /\ CleanupRmdir(t, Top(t), Goto(t, "c_wait") /\ UNCHANGED lv)

\* while self.dir.exists() {}: the loop ends, and cleanup_configfs returns, once
\* the directory is gone; until then the thread spins.
CleanupWait(t) ==
    /\ pc[t] = "c_wait"
    /\ WaitOver(DirExists(Top(t)))
    /\ Finish(t, TRUE)
    /\ Quiet /\ NoFs /\ UNCHANGED faults

\* ---------------------------------------------------------- the environment

\* configfs gets mounted at the default place (by the system, once the module
\* is loaded, or by an administrator).
MountDefault ==
    /\ ~Mounted(DefaultMount)
    /\ mounts' = Append(mounts, ConfigfsLine(DefaultMount))
    /\ UNCHANGED <<dirs, attrs, sysfs, loaded, NAME_COUNT, issued, faults, modprobes, pc, builder,
                   sim, held, torn, lv, result, calls, ops>>

\* The subsystem releases a live simulator behind its owner's back: the tree of
\* a Sim that is held is removed from outside the process, once, and not while
\* a Sim of that name is being set up or torn down.
ExternalRelease(t) ==
    /\ CanFault
    /\ \E s \in held[t] :
         /\ ~s.released
         /\ DirExists(SimDir(s.name))
         /\ \A u \in Threads : ~(sim[u].some /\ sim[u].name = s.name)
         /\ dirs' = MapDel(dirs, {d \in DOMAIN dirs : d[1] = s.name})
         /\ attrs' = MapDel(attrs, {k \in DOMAIN attrs : k[1][1] = s.name})
         /\ held' = [held EXCEPT ![t] = (@ \ {s}) \cup {[s EXCEPT !.released = TRUE]}]
    /\ faults' = faults - 1
    /\ UNCHANGED <<sysfs, loaded, mounts, NAME_COUNT, issued, modprobes, pc, builder, sim, torn,
                   lv, result, calls, ops>>

\* ------------------------------------------------------------ specification

Locate(t) ==
    \/ FindFast(t) \/ Modprobe(t)
    \/ PollPath(t) \/ PollMounts(t) \/ PollDerived(t) \/ PollSleep(t)

Setup(t) ==
    \/ CreateBank(t) \/ WriteLabel(t) \/ WriteNumLines(t)
    \/ CreateNameLine(t) \/ WriteLineName(t)
    \/ HogLineExists(t) \/ CreateHogLine(t) \/ CreateHog(t)
    \/ WriteHogName(t) \/ WriteHogDirection(t)

ReadAttrs(t) == ReadDevName(t) \/ ReadChipName(t) \/ CheckDevPath(t)

Cleanup(t) ==
    \/ CleanupExists(t) \/ CleanupLive0(t) \/ CleanupBankExists(t)
    \/ CleanupRmHog(t) \/ CleanupRmHogLine(t) \/ CleanupRmNameLine(t)
    \/ CleanupRmBank(t) \/ CleanupRmSim(t) \/ CleanupWait(t)

Next ==
    \/ \E t \in Threads :
         \/ LiveStart(t) \/ Locate(t) \/ SimExists(t) \/ CreateSimDir(t)
         \/ Setup(t) \/ WriteLive(t) \/ ReadAttrs(t)
         \/ DropSim(t) \/ Cleanup(t) \/ ExternalRelease(t)
    \/ MountDefault

Spec == Init /\ [][Next]_vars

\* A thread that is in find_configfs or in its polling loop takes its next
\* step: it is scheduled, and its sleep of 100 ms ends.
FairSpec == Spec /\ \A t \in Threads : WF_vars(Locate(t))

\* Where a thread is while it is in cleanup_configfs, and while it is in the
\* polling loop of find_configfs.
CleanupPcs ==
    {"c_exists", "c_live0", "c_bank", "c_hog", "c_hogline", "c_name", "c_rmbank",
     "c_rmdir", "c_wait"}
PollPcs == {"poll", "mounts", "derived", "sleep"}

\* The call of t returned the error e.
Returned(t, e) == pc[t] = "idle" /\ result[t].kind = "Err" /\ result[t].err = e

\* cleanup_configfs returns in this step of t.
CleanupReturns(t) == pc[t] \in CleanupPcs /\ pc'[t] \notin CleanupPcs

\* ------------------------------------------------------------------ claims

\* C1: when the directory of the name exists at the check of Builder::live,
\* the call returns SimulatorExists with that name in that very step, which
\* changes no directory and no attribute and leaves the held Sims alone; and
\* a call that returned SimulatorExists has made no change to the filesystem.
C1_ExistingName ==
    /\ [](\A t \in Threads :
            Returned(t, "SimulatorExists") =>
                /\ ops[t] = {}
                /\ result[t].name = lv[t].name
                /\ sim[t] = NoSim)
    /\ [][\A t \in Threads :
            (pc[t] = "exists" /\ pc'[t] # "exists" /\ DirExists(SimDir(lv[t].name))) =>
                /\ pc'[t] = "idle"
                /\ result'[t] = Res("Err", "SimulatorExists", lv[t].name, "")
                /\ ops'[t] = {}
                /\ UNCHANGED <<dirs, attrs, held>>]_vars

\* The second activation of a name failed while the first simulator is held,
\* live and intact.
C1_Witness ==
    \E t \in Threads :
        /\ Returned(t, "SimulatorExists")
        /\ \E s \in held[t] : s.name = result[t].name /\ ~s.released
        /\ <<SimDir(result[t].name), "live">> \in DOMAIN attrs
        /\ attrs[<<SimDir(result[t].name), "live">>] = "1"
        /\ HasChild(SimDir(result[t].name))

\* C2: when Builder::live has returned an error after it made the top-level
\* directory, no directory that the call made is left: neither the top-level
\* directory of the name nor anything below it.
C2_NoLeak ==
    \A t \in Threads :
        (/\ pc[t] = "idle"
         /\ result[t].kind = "Err"
         /\ <<"mkdir", SimDir(lv[t].name), "">> \in ops[t]) =>
            /\ \A d \in DOMAIN dirs : ~(d[1] = lv[t].name /\ dirs[d] = t)
            /\ ~DirExists(SimDir(lv[t].name))
            /\ \A op \in ops[t] : op[1] = "mkdir" => ~DirExists(op[2])

\* An activation failed after it had made a hog directory, and the error
\* reached the caller with the tree removed.
C2_Witness ==
    \E t \in Threads :
        /\ Returned(t, "IoError")
        /\ <<"mkdir", SimDir(lv[t].name), "">> \in ops[t]
        /\ \E op \in ops[t] : op[1] = "mkdir" /\ op[2][4] = 1
        /\ <<"rmdir", SimDir(lv[t].name), "">> \in ops[t]

\* C3: cleanup_configfs returns only in a step after which the top-level
\* directory of its Sim is absent; and every top-level directory that exists
\* is that of a Sim that is held or in flight, so that a name whose Sim has
\* been torn down is free for the next activation.
C3_TeardownCompletes ==
    /\ [](\A d \in DOMAIN dirs :
            \E t \in Threads :
                \/ sim[t].some /\ sim[t].name = d[1]
                \/ \E s \in held[t] : s.name = d[1])
    /\ [][\A t \in Threads :
            CleanupReturns(t) => SimDir(sim[t].name) \notin DOMAIN dirs']_vars

\* A name is live again after the teardown of an earlier simulator of that
\* name, with no disturbance from outside.
C3_Witness ==
    \E t \in Threads :
        /\ pc[t] = "idle"
        /\ result[t].kind = "Ok"
        /\ result[t].name \in torn
        /\ DirExists(SimDir(result[t].name))
        /\ \E s \in held[t] : s.name = result[t].name
        /\ faults = MaxFaults

\* C4: a call that saw a symbolic link at the device path of a chip is
\* unwinding a panic or has ended in one; a call that returned Ok checked the
\* device path of every chip and saw no symbolic link.
C4_SymlinkPanics ==
    \A t \in Threads :
        /\ (\E k \in 1..Len(lv[t].meta) : lv[t].meta[k]) =>
               \/ pc[t] \in CleanupPcs /\ lv[t].after = Panic
               \/ pc[t] = "dead" /\ result[t] = Panic
        /\ (pc[t] = "idle" /\ result[t].kind = "Ok") =>
               /\ \A k \in 1..Len(lv[t].meta) : ~lv[t].meta[k]
               /\ \E s \in held[t] : s.name = result[t].name
                                     /\ Len(lv[t].meta) = Len(s.chips)

\* The device path of the second chip was a symbolic link: the thread ended in
\* the panic, after the teardown of the simulator.
C4_Witness ==
    \E t \in Threads :
        /\ pc[t] = "dead"
        /\ result[t] = Panic
        /\ Len(lv[t].meta) = 2
        /\ lv[t].meta[2]
        /\ ~DirExists(SimDir(lv[t].name))

\* C5: cleanup_configfs that finds the top-level directory absent returns in
\* that step, which writes no attribute and removes no directory: directories,
\* attributes and the record of the call's changes stay as they are.
C5_Idempotent ==
    [][\A t \in Threads :
         (pc[t] = "c_exists" /\ ~DirExists(Top(t)) /\ pc'[t] # pc[t]) =>
             /\ pc'[t] \notin CleanupPcs
             /\ result'[t] = lv[t].after
             /\ UNCHANGED <<dirs, attrs, ops>>]_vars

\* A Sim whose tree was gone was dropped: the drop is over and changed nothing.
C5_Witness ==
    \E t \in Threads :
        /\ pc[t] = "idle"
        /\ result[t] = Dropped
        /\ ops[t] = {}
        /\ torn # {}

\* C6: whatever fails in cleanup_configfs, it returns what it was entered
\* with: the end of the drop, or the error or panic of the activation that
\* failed; never an error of its own.
C6_TeardownQuiet ==
    /\ [](\A t \in Threads : result[t].stderr # "cleanup")
    /\ [][\A t \in Threads : CleanupReturns(t) => result'[t] = lv[t].after]_vars

\* A drop in which the write of live=0 failed went on to remove the tree and
\* ended as a drop.
C6_Witness ==
    \E t \in Threads :
        /\ pc[t] = "idle"
        /\ result[t] = Dropped
        /\ \E op \in ops[t] : op[1] = "rmdir" /\ IsTop(op[2])
        /\ \A op \in ops[t] : op[1] # "write"

C8_DerivedPathReturned ==
    \A t \in Threads :
        ~(/\ pc[t] = "sleep"
          /\ lv[t].cfgfs # ""
          /\ PathExists(lv[t].cfgfs)
          /\ ~PathExists(DefaultPath))

\* C9: the loop makes at most PollBudget attempts with a sleep after each one
\* that failed; ConfigfsNotFound is returned exactly when all of them failed,
\* a path is returned from the loop only after a check that found one; and a
\* thread that is in the loop leaves it.
C9_BoundedPoll ==
    /\ [](\A t \in Threads :
            /\ lv[t].attempt <= PollBudget
            /\ lv[t].sleeps = lv[t].attempt
            /\ pc[t] \in PollPcs => lv[t].attempt < PollBudget /\ lv[t].seen = {}
            /\ Returned(t, "ConfigfsNotFound") =>
                   lv[t].attempt = PollBudget /\ lv[t].seen = {} /\ lv[t].status = 0
            /\ (lv[t].status = 0 /\ lv[t].seen = {} /\ lv[t].attempt = PollBudget) =>
                   Returned(t, "ConfigfsNotFound")
            /\ (lv[t].status = 0 /\ lv[t].path # "") =>
                   lv[t].seen # {} /\ lv[t].attempt < PollBudget)
    /\ \A t \in Threads : (pc[t] \in PollPcs) ~> (pc[t] \notin PollPcs)

\* The loop gave up after its last attempt.
C9_Witness ==
    \E t \in Threads :
        /\ Returned(t, "ConfigfsNotFound")
        /\ lv[t].attempt = PollBudget
        /\ lv[t].sleeps = PollBudget
        /\ lv[t].reads = PollBudget

\* C10: a call in which modprobe exited with a status other than 0 has
\* returned ModuleLoadError with what modprobe wrote to its standard error,
\* has made no attempt of the loop (no check, no read of the mount table, no
\* sleep) and has made no change to the filesystem.
C10_ModuleLoadError ==
    \A t \in Threads :
        /\ (lv[t].status # None /\ lv[t].status # 0) =>
               /\ Returned(t, "ModuleLoadError")
               /\ result[t].stderr = lv[t].stderr
               /\ lv[t].attempt = 0 /\ lv[t].reads = 0 /\ lv[t].sleeps = 0
               /\ lv[t].path = ""
               /\ ops[t] = {}
               /\ \A d \in DOMAIN dirs : ~(d[1] = lv[t].name /\ dirs[d] = t)
        /\ Returned(t, "ModuleLoadError") => lv[t].status = 1

\* modprobe failed with a message, and the caller has it.
C10_Witness ==
    \E t \in Threads :
        /\ Returned(t, "ModuleLoadError")
        /\ lv[t].status = 1
        /\ result[t].stderr = "modprobe: FATAL: Module gpio-sim not found"
        /\ DOMAIN dirs = {}

\* ------------------------------------------------------------- unique_name

\* The callers of unique_name: the app and the instance they pass.
Apps == {"my_app"}
Instances == {{}, {"test2"}}

\* Calls in a row: 2^31 of them, or 2^31 - 1.
ManyCalls == {<<32768, 0>>, <<32767, 65535>>}

\* A process whose threads call unique_name, MaxLive times each.
NameInit ==
    /\ dirs = EmptyMap
    /\ attrs = EmptyMap
    /\ sysfs = EmptyMap
    /\ loaded = TRUE
    /\ mounts = <<ProcLine, ConfigfsLine(DefaultMount)>>
    /\ NAME_COUNT = U32Zero
    /\ issued = NoneIssued
    /\ faults = 0
    /\ modprobes = 0
    /\ pc = [t \in Threads |-> "idle"]
    /\ builder = [t \in Threads |-> [name |-> {}, banks |-> <<BankPlain>>]]
    /\ sim = [t \in Threads |-> NoSim]
    /\ held = [t \in Threads |-> {}]
    /\ torn = {}
    /\ lv = [t \in Threads |-> LvInit]
    /\ result = [t \in Threads |-> NoResult]
    /\ calls = [t \in Threads |-> MaxLive]
    /\ ops = [t \in Threads |-> {}]

\* What a step of unique_name leaves alone.
NameFrame ==
    UNCHANGED <<dirs, attrs, sysfs, loaded, mounts, faults, modprobes, builder,
                sim, held, torn, ops>>

\* NAME_COUNT.fetch_add(1, Ordering::Relaxed) in a call unique_name(app,
\* instance): one atomic step, whose value the thread keeps.
UniqueNameFetch(t) ==
    /\ pc[t] = "idle"
    /\ calls[t] > 0
    /\ calls' = [calls EXCEPT ![t] = @ - 1]
    /\ \E app \in Apps, instance \in Instances :
         /\ Set(t, [LvInit EXCEPT !.name = UniqueName(app, instance)])
         /\ LogName(UniqueName(app, instance))
    /\ FetchAdd
    /\ Goto(t, "format")
    /\ result' = [result EXCEPT ![t] = NoResult]
    /\ NameFrame

\* format!(...), name += "-", name += i, and the return of the name
UniqueNameReturn(t) ==
    /\ pc[t] = "format"
    /\ Goto(t, "idle")
    /\ result' = [result EXCEPT ![t] = Ok(lv[t].name)]
    /\ UNCHANGED <<NAME_COUNT, issued, lv, calls>>
    /\ NameFrame

\* A thread calls unique_name many times in a row and keeps none of the names:
\* that many fetch_add(1)s, taken as one step.
UniqueNameMany(t) ==
    /\ pc[t] = "idle"
    /\ calls[t] > 0
    /\ calls' = [calls EXCEPT ![t] = @ - 1]
    /\ \E many \in ManyCalls :
         /\ NAME_COUNT' = U32Add(NAME_COUNT, many)
         /\ issued' = [issued EXCEPT !.calls = CountAdd(@, many)]
    /\ UNCHANGED <<pc, lv, result>>
    /\ NameFrame

NameNext ==
    \E t \in Threads : UniqueNameFetch(t) \/ UniqueNameReturn(t) \/ UniqueNameMany(t)

NameSpec == NameInit /\ [][NameNext]_vars

\* C11: the call number k of unique_name, counting from 0, makes its name
\* with n = k, and two calls with the same app and instance make different
\* names.
C11_UniqueNames ==
    /\ \A a \in issued.log : a.name[2] = a.k
    /\ \A a, b \in issued.log :
         (a.k # b.k /\ a.name[1] = b.name[1] /\ a.name[3] = b.name[3]) =>
             a.name # b.name

\* ------------------------------------------------------ the controls of a Chip

\* Lines of the chip, and calls of the methods of Chip a thread makes.
ChipLines == 1
MaxOps == 2

Levels == {"High", "Low"}

\* The offsets the callers pass: those of the lines, and one past them.
Offsets == 0..ChipLines

\* The text of a file is a sequence of pieces, each a blank or a run of other
\* characters.
Blanks == {" ", "\n"}

\* What a control file may hold: what the kernel writes there, and other text.
Contents ==
    { <<"pull-up", "\n">>, <<"pull-down", "\n">>, <<"pull-up">>,
      <<" ", "pull-down", "\n", "\n">>, <<"pull", " ", "up", "\n">>,
      <<"1", "\n">>, <<"0">>, <<"2", "\n">>, <<"\n">>, <<>> }

\* A str::trim that trims nothing.
TrimNothing(text) == text

\* s.trim(): the text without the blanks at its ends
Trim(text) ==
    LET kept == {k \in 1..Len(text) : text[k] \notin Blanks}
    IN  IF kept = {} THEN <<>>
        ELSE LET first == CHOOSE k \in kept : \A j \in kept : k <= j
                 last == CHOOSE k \in kept : \A j \in kept : j <= k
             IN  SubSeq(text, first, last)

\* Result<()> and Result<Level> of the methods of Chip
ChipRes(kind, err, level, text) ==
    [kind |-> kind, err |-> err, level |-> level, text |-> text]
OkUnit == ChipRes("Ok", "", "", <<>>)
OkLevel(level) == ChipRes("Ok", "", level, <<>>)
IoError == ChipRes("Err", "IoError", "", <<>>)
UnexpectedValue(text) == ChipRes("Err", "UnexpectedValue", "", text)

\* A set_pull with the two texts the wrong way round.
PullTextSwapped(pull) ==
    CASE pull = "Low" -> <<"pull-up">>
      [] pull = "High" -> <<"pull-down">>

\* set_pull: let value = match pull { Low => "pull-down", High => "pull-up" }
PullText(pull) ==
    CASE pull = "Low" -> <<"pull-down">>
      [] pull = "High" -> <<"pull-up">>

\* get_pull: match pull.as_str() { .. }
DecodePull(pull) ==
    CASE pull = <<"pull-down">> -> OkLevel("Low")
      [] pull = <<"pull-up">> -> OkLevel("High")
      [] OTHER -> UnexpectedValue(pull)

\* get_level: match val.as_str() { .. }
DecodeLevel(val) ==
    CASE val = <<"0">> -> OkLevel("Low")
      [] val = <<"1">> -> OkLevel("High")
      [] OTHER -> UnexpectedValue(val)

\* A toggle that writes back the level it read.
ToggleKeeps(level) == level

\* toggle: match self.get_pull(offset)? { High => Low, Low => High }
ToggleValue(level) == IF level = "High" THEN "Low" ELSE "High"

\* self.sysfs_path.join(format!("sim_gpio{offset}/{attr}"))
ControlFile(c, offset, attr) == <<c.sysfs_path, offset, attr>>

\* The kernel's side of a write to a pull file: it takes "pull-up" and
\* "pull-down", with or without a line feed, and shows the pull with one.
\* The set of what the file holds afterwards; empty when the write fails.
KernelPull(data) ==
    IF Trim(data) \in {<<"pull-up">>, <<"pull-down">>}
    THEN {Append(Trim(data), "\n")}
    ELSE {}

\* What a file holds: Option, a set of at most one text.
FileText(f) == IF f \in DOMAIN sysfs THEN {sysfs[f]} ELSE {}

\* The simulator that Simpleton::new(ChipLines) has taken live, the first of
\* its process: its name, its chip, its directories and its files.
SimpletonName == <<AppName, U32Zero, {}>>
SimpletonChip ==
    LET top == SimDir(SimpletonName)
        bank == BankDir(SimpletonName, 0)
    IN  [cfg |-> BankNew(ChipLines, "simpleton"),
         dev_path |-> DevPath(ChipNameOf(bank)),
         chip_name |-> ChipNameOf(bank),
         dev_name |-> DevNameOf(top),
         sysfs_path |-> SysfsPath(DevNameOf(top), ChipNameOf(bank))]
Simpleton ==
    [some |-> TRUE, name |-> SimpletonName, chips |-> <<SimpletonChip>>,
     released |-> FALSE]

\* The locals of a call of a method of Chip, and hist, the last two calls the
\* thread has made since a control file was last changed behind its back.
ChipLv ==
    [op |-> "", o |-> 0, value |-> "", before |-> {}, raw |-> {}, clean |-> TRUE,
     hist |-> <<>>]

\* A call as hist keeps it: the method, its offset, the level passed or
\* written, what it returned, what it read, and what the pull file of the
\* line held before and after.
Entry(op, o, arg, res, raw, before, after, clean) ==
    [op |-> op, o |-> o, arg |-> arg, res |-> res, raw |-> raw,
     before |-> before, after |-> after, clean |-> clean]

Keep(h, e) == IF Len(h) = 2 THEN <<h[2], e>> ELSE Append(h, e)

\* The chip of a live Simpleton, in the hands of the threads `users`.
ChipStart(users) ==
    LET top == SimDir(SimpletonName)
        bank == BankDir(SimpletonName, 0)
        path == SimpletonChip.sysfs_path
    IN  /\ dirs = [d \in {top, bank} |-> 1]
        /\ attrs = [k \in {<<top, "live">>, <<top, "dev_name">>, <<bank, "label">>,
                           <<bank, "num_lines">>, <<bank, "chip_name">>} |->
                      CASE k[2] = "live" -> "1"
                        [] k[2] = "dev_name" -> DevNameOf(top)
                        [] k[2] = "label" -> "simpleton"
                        [] k[2] = "num_lines" -> FormatU32(ChipLines)
                        [] k[2] = "chip_name" -> ChipNameOf(bank)]
        /\ sysfs = [f \in {path} \X (0..(ChipLines - 1)) \X {"pull", "value"} |->
                      IF f[3] = "pull" THEN <<"pull-down", "\n">> ELSE <<"0", "\n">>]
        /\ loaded = TRUE
        /\ mounts = <<ProcLine, ConfigfsLine(DefaultMount)>>
        /\ NAME_COUNT = U32One
        /\ issued = [calls |-> U32One, log |-> {[k |-> U32Zero, name |-> SimpletonName]}]
        /\ faults = MaxFaults
        /\ modprobes = 0
        /\ pc = [t \in Threads |-> "idle"]
        /\ builder = [t \in Threads |->
                        [name |-> {}, banks |-> <<BankNew(ChipLines, "simpleton")>>]]
        /\ sim = [t \in Threads |-> NoSim]
        /\ held = [t \in Threads |-> IF t \in users THEN {Simpleton} ELSE {}]
        /\ torn = {}
        /\ lv = [t \in Threads |-> ChipLv]
        /\ result = [t \in Threads |-> NoResult]
        /\ calls = [t \in Threads |-> IF t \in users THEN MaxOps ELSE 0]
        /\ ops = [t \in Threads |-> {}]

ChipInit == ChipStart({1})

\* What a step of a method of Chip leaves alone.
ChipFrame ==
    UNCHANGED <<dirs, attrs, loaded, mounts, NAME_COUNT, issued, modprobes, builder,
                sim, held, torn, ops>>

\* The chip the thread works on: the chip of the simulator it holds.
TheChip(t) == (CHOOSE s \in held[t] : TRUE).chips[1]

\* A call of thread t begins.
Begin(t) ==
    /\ pc[t] = "idle"
    /\ calls[t] > 0
    /\ held[t] # {}
    /\ calls' = [calls EXCEPT ![t] = @ - 1]

\* The call of thread t returns: e is what hist keeps of it.
Done(t, e) ==
    /\ pc' = [pc EXCEPT ![t] = "idle"]
    /\ result' = [result EXCEPT ![t] = e.res]
    /\ lv' = [lv EXCEPT ![t] = [ChipLv EXCEPT !.hist = Keep(lv[t].hist, e)]]

\* fs::write(file, data).map_err(Error::IoError): whether it succeeds, and
\* what the files hold afterwards.
WriteControl(f, data, ok) ==
    sysfs' = IF ok THEN MapPut(sysfs, f, CHOOSE c \in KernelPull(data) : TRUE)
             ELSE sysfs
CanWriteControl(f, data) == f \in DOMAIN sysfs /\ KernelPull(data) # {}

\* get_attr: fs::read_to_string(..).map(|s| s.trim().to_string())
\*               .map_err(Error::IoError)
GetAttr(f, ok) == IF ok THEN [ok |-> TRUE, text |-> Trim(sysfs[f])]
                  ELSE [ok |-> FALSE, text |-> <<>>]

\* Chip::set_pull(offset, pull)
SetPull(t) ==
    /\ Begin(t)
    /\ \E o \in Offsets, pull \in Levels :
         LET f == ControlFile(TheChip(t), o, "pull")
             can == CanWriteControl(f, PullText(pull))
         IN  \E ok \in Outcomes(can) :
               /\ Charge(can, ok)
               /\ WriteControl(f, PullText(pull), ok)
               /\ Done(t, Entry("set_pull", o, pull, IF ok THEN OkUnit ELSE IoError,
                                {}, FileText(f),
                                IF ok THEN KernelPull(PullText(pull)) ELSE FileText(f),
                                TRUE))
    /\ ChipFrame

\* Chip::get_pull(offset)
GetPull(t) ==
    /\ Begin(t)
    /\ \E o \in Offsets :
         LET f == ControlFile(TheChip(t), o, "pull")
             can == f \in DOMAIN sysfs
         IN  \E ok \in Outcomes(can) :
               LET pull == GetAttr(f, ok)
               IN  /\ Charge(can, ok)
                   /\ Done(t, Entry("get_pull", o, "",
                                    IF pull.ok THEN DecodePull(pull.text) ELSE IoError,
                                    IF ok THEN {sysfs[f]} ELSE {},
                                    FileText(f), FileText(f), TRUE))
    /\ UNCHANGED sysfs
    /\ ChipFrame

\* Chip::get_level(offset)
GetLevel(t) ==
    /\ Begin(t)
    /\ \E o \in Offsets :
         LET f == ControlFile(TheChip(t), o, "value")
             can == f \in DOMAIN sysfs
         IN  \E ok \in Outcomes(can) :
               LET val == GetAttr(f, ok)
               IN  /\ Charge(can, ok)
                   /\ Done(t, Entry("get_level", o, "",
                                    IF val.ok THEN DecodeLevel(val.text) ELSE IoError,
                                    IF ok THEN {sysfs[f]} ELSE {},
                                    FileText(ControlFile(TheChip(t), o, "pull")),
                                    FileText(ControlFile(TheChip(t), o, "pull")), TRUE))
    /\ UNCHANGED sysfs
    /\ ChipFrame

\* Chip::toggle(offset), its first half: self.get_pull(offset)? and the match
ToggleGet(t) ==
    /\ Begin(t)
    /\ \E o \in Offsets :
         LET f == ControlFile(TheChip(t), o, "pull")
             can == f \in DOMAIN sysfs
         IN  \E ok \in Outcomes(can) :
               LET pull == GetAttr(f, ok)
                   got == IF pull.ok THEN DecodePull(pull.text) ELSE IoError
                   raw == IF ok THEN {sysfs[f]} ELSE {}
               IN  /\ Charge(can, ok)
                   /\ IF got.kind = "Ok"
                      THEN /\ pc' = [pc EXCEPT ![t] = "toggle_set"]
                           /\ lv' = [lv EXCEPT ![t].op = "toggle", ![t].o = o,
                                               ![t].value = ToggleValue(got.level),
                                               ![t].before = FileText(f),
                                               ![t].raw = raw, ![t].clean = TRUE]
                           /\ UNCHANGED result
                      ELSE Done(t, Entry("toggle", o, "", got, raw,
                                         FileText(f), FileText(f), TRUE))
    /\ UNCHANGED sysfs
    /\ ChipFrame

\* Chip::toggle(offset), its second half: self.set_pull(offset, value)?;
\* Ok(value)
ToggleSet(t) ==
    /\ pc[t] = "toggle_set"
    /\ LET f == ControlFile(TheChip(t), lv[t].o, "pull")
           can == CanWriteControl(f, PullText(lv[t].value))
       IN  \E ok \in Outcomes(can) :
             /\ Charge(can, ok)
             /\ WriteControl(f, PullText(lv[t].value), ok)
             /\ Done(t, Entry("toggle", lv[t].o, lv[t].value,
                              IF ok THEN OkLevel(lv[t].value) ELSE IoError,
                              lv[t].raw, lv[t].before,
                              IF ok THEN KernelPull(PullText(lv[t].value))
                              ELSE FileText(f),
                              lv[t].clean))
    /\ UNCHANGED calls
    /\ ChipFrame

\* The consumer of a line drives it: the kernel shows the other value.
ConsumerDrives ==
    /\ \E f \in DOMAIN sysfs :
         /\ f[3] = "value"
         /\ sysfs' = [sysfs EXCEPT ![f] =
                        IF @ = <<"1", "\n">> THEN <<"0", "\n">> ELSE <<"1", "\n">>]
    /\ UNCHANGED <<faults, pc, lv, result, calls>>
    /\ ChipFrame

\* A control file comes to hold some other text, behind the back of the
\* threads: what they did before tells nothing about the files any more.
Disturb ==
    /\ CanFault
    /\ faults' = faults - 1
    /\ \E f \in DOMAIN sysfs, text \in Contents : sysfs' = [sysfs EXCEPT ![f] = text]
    /\ lv' = [t \in Threads |-> [lv[t] EXCEPT !.hist = <<>>, !.clean = FALSE]]
    /\ UNCHANGED <<pc, result, calls>>
    /\ ChipFrame

ChipNext ==
    \/ \E t \in Threads :
         SetPull(t) \/ GetPull(t) \/ GetLevel(t) \/ ToggleGet(t) \/ ToggleSet(t)
    \/ ConsumerDrives
    \/ Disturb

ChipSpec == ChipInit /\ [][ChipNext]_vars

\* The level a pull file shows, as get_pull reads it.
ShownPull(file) == {DecodePull(Trim(text)) : text \in file}

\* Two calls one after the other by one thread, with no write to the files
\* between them but their own.
Consecutive(t) == Len(lv[t].hist) = 2 /\ lv[t].hist[1].clean /\ lv[t].hist[2].clean

\* C12: the pull of a line round-trips. A get_pull(o) that follows a
\* successful set_pull(o, level) and reads the file returns that level, for
\* High and for Low; two consecutive successful toggle(o) with no write in
\* between leave the pull at its original level, and each toggle returns the
\* level it wrote.
C12_PullRoundTrip ==
    \A t \in Threads :
      Consecutive(t) =>
        LET a == lv[t].hist[1]
            b == lv[t].hist[2]
        IN  /\ (a.op = "set_pull" /\ a.res = OkUnit /\ b.op = "get_pull" /\ b.o = a.o) =>
                  b.res \in {OkLevel(a.arg), IoError}
            /\ (a.op = "toggle" /\ a.res.kind = "Ok" /\ b.op = "toggle"
                  /\ b.res.kind = "Ok" /\ b.o = a.o) =>
                  /\ ShownPull(b.after) = ShownPull(a.before)
                  /\ ShownPull(a.after) = {a.res}
                  /\ ShownPull(b.after) = {b.res}
                  /\ a.res # b.res

\* Two successful toggles of one line, one after the other.
C12_Witness ==
    \E t \in Threads :
      /\ Consecutive(t)
      /\ lv[t].hist[1].op = "toggle" /\ lv[t].hist[2].op = "toggle"
      /\ lv[t].hist[1].res = OkLevel("High") /\ lv[t].hist[2].res = OkLevel("Low")
      /\ lv[t].hist[1].o = lv[t].hist[2].o

\* The pieces of a text.
Pieces(raw) == {SubSeq(raw, i, j) : i \in 1..(Len(raw) + 1), j \in 0..Len(raw)}

\* text is raw without the blanks at its two ends.
Stripped(raw, text) ==
    \E i \in 0..Len(raw) :
      /\ i + Len(text) <= Len(raw)
      /\ \A k \in 1..Len(text) : text[k] = raw[i + k]
      /\ \A k \in 1..i : raw[k] \in Blanks
      /\ \A k \in (i + Len(text) + 1)..Len(raw) : raw[k] \in Blanks
      /\ text # <<>> => (text[1] \notin Blanks /\ text[Len(text)] \notin Blanks)

\* What a read that returned e should have returned, were the content of the
\* file `text`: low for the content `low`, high for `high`, else the error.
Decodes(e, text, low, high) ==
    e.res = IF text = low THEN OkLevel("Low")
            ELSE IF text = high THEN OkLevel("High")
            ELSE UnexpectedValue(text)

\* The reads hist keeps.
Reads(op) == {e \in UNION {{lv[t].hist[k] : k \in 1..Len(lv[t].hist)} : t \in Threads} :
                e.op = op}

\* A step in which thread t returns from get_pull or get_level.
GetReturns(t) ==
    /\ calls'[t] = calls[t] - 1
    /\ pc'[t] = "idle"
    /\ lv'[t].hist # <<>>
    /\ lv'[t].hist[Len(lv'[t].hist)].op \in {"get_pull", "get_level"}

\* C13 as stated: the content of the file is compared with "pull-down" and
\* "pull-up" ("0" and "1"), every other content is an UnexpectedValue carrying
\* the text read.
C13_DecodeLiteral ==
    /\ \A e \in Reads("get_pull") : \A raw \in e.raw :
         Decodes(e, raw, <<"pull-down">>, <<"pull-up">>)
    /\ \A e \in Reads("get_level") : \A raw \in e.raw :
         Decodes(e, raw, <<"0">>, <<"1">>)

\* C13, amended: attribute reads decode totally the content without the
\* whitespace at its ends. get_pull returns Low for "pull-down", High for
\* "pull-up" and UnexpectedValue carrying the trimmed text for every other
\* trimmed content; get_level returns Low for "0", High for "1" and
\* UnexpectedValue likewise; both return IoError when the file cannot be read,
\* and neither writes anything.
C13_DecodeTrimmed ==
    /\ [](/\ \A e \in Reads("get_pull") :
               /\ e.raw = {} <=> e.res = IoError
               /\ \A raw \in e.raw : \E text \in Pieces(raw) :
                    Stripped(raw, text) /\ Decodes(e, text, <<"pull-down">>, <<"pull-up">>)
          /\ \A e \in Reads("get_level") :
               /\ e.raw = {} <=> e.res = IoError
               /\ \A raw \in e.raw : \E text \in Pieces(raw) :
                    Stripped(raw, text) /\ Decodes(e, text, <<"0">>, <<"1">>))
    /\ [][\A t \in Threads : GetReturns(t) => UNCHANGED <<sysfs, dirs, attrs>>]_vars

\* get_pull read "pull up" followed by a newline and returned UnexpectedValue
\* with "pull up".
C13_Witness ==
    \E e \in Reads("get_pull") :
      /\ e.raw = {<<"pull", " ", "up", "\n">>}
      /\ e.res = UnexpectedValue(<<"pull", " ", "up">>)

\* ------------------------------------------------- the tree of a live Sim

\* The directories setup_configfs makes for the chips of s: one per bank, one
\* per line that has a name or a hog, one per hog.
TreeDirs(s) ==
    {SimDir(s.name)}
      \cup {BankDir(s.name, i) : i \in 0..(Len(s.chips) - 1)}
      \cup UNION {{LineDir(s.name, i, o) :
                     o \in DOMAIN s.chips[i + 1].cfg.names \cup DOMAIN s.chips[i + 1].cfg.hogs} :
                  i \in 0..(Len(s.chips) - 1)}
      \cup UNION {{HogDir(s.name, i, o) : o \in DOMAIN s.chips[i + 1].cfg.hogs} :
                  i \in 0..(Len(s.chips) - 1)}

\* The directories that are below the directory of s.
DirsBelow(s) == {d \in DOMAIN dirs : d[1] = s.name}

\* The Sims whose activation succeeds in a step: Builder::live returns
\* Ok(sim) and the caller holds it from then on.
Activated(t) == IF pc[t] # "idle" /\ pc'[t] = "idle" THEN held'[t] \ held[t] ELSE {}

\* The Sims that callers hold.
AllHeld == UNION {held[t] : t \in Threads}

\* The tree below the directory of s is the one its configuration asks for.
TreeMatches(s) ==
    /\ DirsBelow(s) = TreeDirs(s)
    /\ \A d \in DirsBelow(s) :
         (d[3] # None /\ d[4] = 0) =>
           (<<d, "name">> \in DOMAIN attrs <=> d[3] \in DOMAIN s.chips[d[2] + 1].cfg.names)
    /\ \A i \in 0..(Len(s.chips) - 1) :
         s.chips[i + 1].cfg.label = "low" =>
           /\ \A o \in Unnamed : <<LineDir(s.name, i, o), "name">> \notin DOMAIN attrs
           /\ \A o \in Unhogged : ~DirExists(HogDir(s.name, i, o))
           /\ \A o \in Unnamed \cup Unhogged : ~DirExists(LineDir(s.name, i, o))

\* C14: after a successful activation the tree has a directory
\* bank<i>/line<o> if and only if o has a name or a hog in the configuration
\* of bank i, a name attribute written in it if and only if o is named, and a
\* hog subdirectory if and only if o is hogged; an offset whose name (hog) was
\* removed with unname (unhog) before activation has no name file (no hog
\* directory), and no line directory when nothing else is assigned to it.
C14_TreeMatchesConfig ==
    [][\A t \in Threads : \A s \in Activated(t) : TreeMatches(s)']_vars

\* A Sim is live whose bank had a name and two hogs removed before
\* activation, and whose one hogged line has a directory with no name file.
C14_Witness ==
    \E s \in AllHeld :
      /\ s.chips[1].cfg = BankLow
      /\ DirExists(HogDir(s.name, 0, 2))
      /\ <<LineDir(s.name, 0, 2), "name">> \notin DOMAIN attrs
      /\ ~DirExists(LineDir(s.name, 0, 3))

\* The text of an attribute file: Option<text>, a set of at most one text,
\* empty when the file was not written.
AttrText(d, file) == IF <<d, file>> \in DOMAIN attrs THEN {attrs[<<d, file>>]} ELSE {}

\* The attribute files below the directory of s hold its configuration.
ValuesMatch(s) ==
    /\ AttrText(SimDir(s.name), "live") = {"1"}
    /\ \A i \in 0..(Len(s.chips) - 1) :
         LET cfg == s.chips[i + 1].cfg
             bank == BankDir(s.name, i)
         IN  /\ AttrText(bank, "label") = {cfg.label}
             /\ cfg.num_lines = 4 => AttrText(bank, "num_lines") = {"4"}
             /\ cfg.num_lines = 8 => AttrText(bank, "num_lines") = {"8"}
             /\ cfg.num_lines = 12 => AttrText(bank, "num_lines") = {"12"}
             /\ cfg.num_lines \in {4, 8, 12}
             /\ \A o \in DOMAIN cfg.names :
                  AttrText(LineDir(s.name, i, o), "name") = {cfg.names[o]}
             /\ \A o \in DOMAIN cfg.hogs :
                  LET hog == HogDir(s.name, i, o)
                      direction == cfg.hogs[o].direction
                  IN  /\ AttrText(hog, "name") = {cfg.hogs[o].consumer}
                      /\ direction = "Input" => AttrText(hog, "direction") = {"input"}
                      /\ direction = "OutputHigh" =>
                           AttrText(hog, "direction") = {"output-high"}
                      /\ direction = "OutputLow" =>
                           AttrText(hog, "direction") = {"output-low"}
                      /\ direction \in {"Input", "OutputHigh", "OutputLow"}

\* C15: after a successful activation the attribute values written equal the
\* configuration: num_lines and label of each bank hold the configured line
\* count and label, the name attribute of each named line its name, the name
\* of each hog the consumer and its direction exactly "input", "output-high"
\* or "output-low" for Input, OutputHigh or OutputLow, and live is "1".
C15_ValuesMatchConfig ==
    [][\A t \in Threads : \A s \in Activated(t) : ValuesMatch(s)']_vars

\* A Sim of two banks is live, the files of its first bank holding 8 lines,
\* the name banana and a hog that drives high.
C15_Witness ==
    \E s \in AllHeld :
      /\ Len(s.chips) = 2
      /\ AttrText(SimDir(s.name), "live") = {"1"}
      /\ AttrText(BankDir(s.name, 0), "num_lines") = {"8"}
      /\ AttrText(BankDir(s.name, 1), "label") = {"simpleton"}
      /\ AttrText(LineDir(s.name, 0, 3), "name") = {"banana"}
      /\ AttrText(HogDir(s.name, 0, 1), "name") = {"hogster"}
      /\ AttrText(HogDir(s.name, 0, 1), "direction") = {"output-high"}

\* The name Builder::live resolves for the builder b when unique_name would
\* use the counter value n: the name of the builder when it has one, else
\* default_name(), unique_name("gpiosim", None).
Resolved(b, n) == IF b.name # {} THEN b.name ELSE {<<AppName, n, {}>>}

\* C16: the Sim that a successful activation returns holds exactly one chip
\* per bank of the builder, in the order of the banks, each with a
\* configuration equal to its bank, and its name is the name resolved for the
\* builder; no step of the activation changes the name or the banks of the
\* builder.
C16_SimFromBuilder ==
    [][\A t \in Threads :
         /\ \A s \in Activated(t) :
              /\ Len(s.chips) = Len(builder[t].banks)
              /\ \A k \in 1..Len(s.chips) : s.chips[k].cfg = builder[t].banks[k]
              /\ \E e \in issued.log \cup {[k |-> NoCount, name |-> NoName]} :
                   s.name \in Resolved(builder[t], e.k)
              /\ s.name = lv[t].name
              /\ result'[t] = Ok(s.name)
         /\ (pc[t] # "idle" \/ pc'[t] # "idle") => builder'[t] = builder[t]]_vars

\* A Sim of two chips is returned for a builder of two banks, and the
\* builder is as it was.
C16_Witness ==
    \E t \in Threads : \E s \in held[t] :
      /\ builder[t] = [name |-> {NameA}, banks |-> <<BankSplit, BankPlain>>]
      /\ s.name = NameA
      /\ Len(s.chips) = 2
      /\ s.chips[1].cfg = BankSplit
      /\ s.chips[2].cfg = BankPlain
      /\ result[t] = Ok(NameA)

\* ------------------------------------------------ the order of an activation

\* The calls that setup_configfs makes for bank i of s: a create_dir for each
\* directory and a write_attr for each attribute.
BankOps(s, i) ==
    LET cfg == s.chips[i + 1].cfg
    IN  {<<"mkdir", d, "">> : d \in {x \in TreeDirs(s) : x[2] = i}}
          \cup {<<"write", BankDir(s.name, i), "label">>,
                <<"write", BankDir(s.name, i), "num_lines">>}
          \cup {<<"write", LineDir(s.name, i, o), "name">> : o \in DOMAIN cfg.names}
          \cup {<<"write", HogDir(s.name, i, o), "name">> : o \in DOMAIN cfg.hogs}
          \cup {<<"write", HogDir(s.name, i, o), "direction">> : o \in DOMAIN cfg.hogs}

\* All that comes before the write of live: the directory of the Sim and
\* every bank.
SetupOps(s) ==
    {<<"mkdir", SimDir(s.name), "">>}
      \cup UNION {BankOps(s, i) : i \in 0..(Len(s.chips) - 1)}

\* What has to be done before the call op of the activation of s.
Before(s, op) ==
    IF op = <<"mkdir", SimDir(s.name), "">> THEN {}
    ELSE IF op = <<"write", SimDir(s.name), "live">> THEN SetupOps(s)
    ELSE {<<"mkdir", SimDir(s.name), "">>}
           \cup UNION {BankOps(s, j) : j \in 0..(op[2][2] - 1)}

\* The threads that are reading back what the kernel assigned.
ReadBackPcs == {"dev_name", "chip_name", "dev_path"}

\* Sim::live failed in thread t and its Sim is being dropped.
SetupFailed(t) == pc[t] \in CleanupPcs /\ lv[t].after.kind # "Dropped"

\* C20: activation is ordered. The directory of the Sim is created first;
\* the banks are built in the order of the configuration, each one whole
\* before the next; the live attribute becomes "1" only in a step of the
\* activating thread that comes after every directory and attribute of the
\* configuration was written successfully; the identifiers of the kernel are
\* read back only after that write; and when a step before it fails live is
\* never written "1".
C20_ActivationOrdered ==
    /\ [](\A t \in Threads :
            /\ pc[t] \in ReadBackPcs =>
                 /\ SetupOps(sim[t]) \cup {<<"write", Top(t), "live">>} = ops[t]
                 /\ AttrText(Top(t), "live") = {"1"}
            /\ (SetupFailed(t) /\ ~(SetupOps(sim[t]) \subseteq ops[t])) =>
                 AttrText(Top(t), "live") # {"1"})
    /\ [][/\ \A t \in Threads :
              pc[t] \notin CleanupPcs =>
                \A op \in ops'[t] \ ops[t] : Before(sim'[t], op) \subseteq ops[t]
          /\ \A k \in DOMAIN attrs' :
               (k[2] = "live" /\ attrs'[k] = "1" /\ AttrText(k[1], "live") # {"1"}) =>
                 \E t \in Threads :
                   /\ sim[t].some /\ Top(t) = k[1]
                   /\ pc[t] \notin CleanupPcs
                   /\ ops[t] = SetupOps(sim[t])]_vars

\* The activation of a Sim of two banks has written live and is reading back
\* the name of its device.
C20_Witness ==
    \E t \in Threads :
      /\ pc[t] = "dev_name"
      /\ Len(sim[t].chips) = 2
      /\ AttrText(Top(t), "live") = {"1"}
      /\ BankOps(sim[t], 1) \subseteq ops[t]

\* ------------------------------------------------------ the methods of Bank

\* How many methods a thread calls on its bank.
MaxEdits == 3

\* Bank::default()
BankDefault == BankNew(0, "")

\* The banks a thread starts from, and the arguments it calls the methods
\* with.
StartBanks == {BankDefault, BankSplit}
EditOffsets == {1, 3}
LineNames == {"pinata", "banana"}
Consumers == {"piggly", "hogster"}
Directions == {"Input", "OutputHigh", "OutputLow"}

\* The locals of a thread that edits a bank: the last method it called, its
\* arguments and the bank before the call.
NoEdit == [op |-> "", o |-> None, text |-> "", direction |-> "", prev |-> BankDefault]
Edit(op, o, text, direction, prev) ==
    [op |-> op, o |-> o, text |-> text, direction |-> direction, prev |-> prev]

\* The bank of thread t: the first bank of its builder.
TheBank(t) == builder[t].banks[1]

BankInit ==
    /\ dirs = EmptyMap
    /\ attrs = EmptyMap
    /\ sysfs = EmptyMap
    /\ loaded = TRUE
    /\ mounts = <<ProcLine, ConfigfsLine(DefaultMount)>>
    /\ NAME_COUNT = U32Zero
    /\ issued = NoneIssued
    /\ faults = 0
    /\ modprobes = 0
    /\ pc = [t \in Threads |-> "idle"]
    /\ \E b \in StartBanks : builder = [t \in Threads |-> [name |-> {}, banks |-> <<b>>]]
    /\ sim = [t \in Threads |-> NoSim]
    /\ held = [t \in Threads |-> {}]
    /\ torn = {}
    /\ lv = [t \in Threads |-> NoEdit]
    /\ result = [t \in Threads |-> NoResult]
    /\ calls = [t \in Threads |-> IF t = 1 THEN MaxEdits ELSE 0]
    /\ ops = [t \in Threads |-> {}]

BankFrame ==
    UNCHANGED <<dirs, attrs, sysfs, loaded, mounts, NAME_COUNT, issued, faults,
                modprobes, pc, sim, held, torn, result, ops>>

\* A method of Bank is called on the bank of t and leaves the bank b.
Edited(t, b, e) ==
    /\ calls' = [calls EXCEPT ![t] = @ - 1]
    /\ builder' = [builder EXCEPT ![t].banks[1] = b]
    /\ lv' = [lv EXCEPT ![t] = e]
    /\ BankFrame

\* bank.name(offset, name)
Name(t) ==
    /\ calls[t] > 0
    /\ \E o \in EditOffsets, n \in LineNames :
         Edited(t, BankName(TheBank(t), o, n), Edit("name", o, n, "", TheBank(t)))

\* bank.unname(offset)
Unname(t) ==
    /\ calls[t] > 0
    /\ \E o \in EditOffsets :
         Edited(t, BankUnname(TheBank(t), o), Edit("unname", o, "", "", TheBank(t)))

\* bank.hog(offset, consumer, direction)
Hog(t) ==
    /\ calls[t] > 0
    /\ \E o \in EditOffsets, c \in Consumers, d \in Directions :
         Edited(t, BankHog(TheBank(t), o, c, d), Edit("hog", o, c, d, TheBank(t)))

\* bank.unhog(offset)
Unhog(t) ==
    /\ calls[t] > 0
    /\ \E o \in EditOffsets :
         Edited(t, BankUnhog(TheBank(t), o), Edit("unhog", o, "", "", TheBank(t)))

BankNext == \E t \in Threads : Name(t) \/ Unname(t) \/ Hog(t) \/ Unhog(t)

BankSpec == BankInit /\ [][BankNext]_vars

\* The map m is the map prev but for what they bind the key o to.
SameBut(m, prev, o) ==
    /\ DOMAIN m \ {o} = DOMAIN prev \ {o}
    /\ \A x \in DOMAIN prev \ {o} : m[x] = prev[x]

\* C18: name(o, n) yields a bank equal to the previous one except that
\* names[o] = n, inserted if o was absent and overwritten otherwise, so that
\* the number of names grows by one exactly when o was absent; unname(o)
\* removes only the entry for o and is a no-op when o has no name; neither
\* changes hogs, num_lines or label.
C18_NameUnname ==
    \A t \in Threads :
      LET e == lv[t]
          b == TheBank(t)
      IN  /\ e.op \in {"name", "unname"} =>
                /\ SameBut(b.names, e.prev.names, e.o)
                /\ b.hogs = e.prev.hogs
                /\ b.num_lines = e.prev.num_lines
                /\ b.label = e.prev.label
          /\ e.op = "name" =>
                /\ e.o \in DOMAIN b.names
                /\ b.names[e.o] = e.text
                /\ Cardinality(DOMAIN b.names) =
                     Cardinality(DOMAIN e.prev.names)
                       + (IF e.o \in DOMAIN e.prev.names THEN 0 ELSE 1)
          /\ e.op = "unname" =>
                /\ e.o \notin DOMAIN b.names
                /\ e.o \notin DOMAIN e.prev.names => b = e.prev

\* An offset that had a name was named again, with another name, next to
\* another named offset.
C18_Witness ==
    \E t \in Threads :
      /\ lv[t].op = "name"
      /\ lv[t].o \in DOMAIN lv[t].prev.names
      /\ lv[t].prev.names[lv[t].o] # lv[t].text
      /\ Cardinality(DOMAIN TheBank(t).names) = 2

\* C19: hog(o, consumer, direction) yields a bank equal to the previous one
\* except that hogs[o] = (consumer, direction), both fields of an earlier hog
\* on o being replaced and the number of hogs staying as it was; unhog(o)
\* removes only the entry for o and is a no-op when o has no hog; neither
\* changes names (nor num_lines, nor label), so that an offset may carry a
\* name, a hog, both or neither.
C19_HogUnhog ==
    \A t \in Threads :
      LET e == lv[t]
          b == TheBank(t)
      IN  /\ e.op \in {"hog", "unhog"} =>
                /\ SameBut(b.hogs, e.prev.hogs, e.o)
                /\ b.names = e.prev.names
                /\ b.num_lines = e.prev.num_lines
                /\ b.label = e.prev.label
          /\ e.op = "hog" =>
                /\ e.o \in DOMAIN b.hogs
                /\ b.hogs[e.o].consumer = e.text
                /\ b.hogs[e.o].direction = e.direction
                /\ e.o \in DOMAIN e.prev.hogs =>
                     Cardinality(DOMAIN b.hogs) = Cardinality(DOMAIN e.prev.hogs)
                /\ e.o \notin DOMAIN e.prev.hogs =>
                     Cardinality(DOMAIN b.hogs) = Cardinality(DOMAIN e.prev.hogs) + 1
          /\ e.op = "unhog" =>
                /\ e.o \notin DOMAIN b.hogs
                /\ e.o \notin DOMAIN e.prev.hogs => b = e.prev

\* A hog was replaced, consumer and direction, on an offset that has a name,
\* while the other offset has neither name nor hog.
C19_Witness ==
    \E t \in Threads :
      /\ lv[t].op = "hog"
      /\ lv[t].o \in DOMAIN lv[t].prev.hogs
      /\ lv[t].prev.hogs[lv[t].o].consumer # lv[t].text
      /\ lv[t].prev.hogs[lv[t].o].direction # lv[t].direction
      /\ lv[t].o \in DOMAIN TheBank(t).names
      /\ \E o \in EditOffsets : o \notin DOMAIN TheBank(t).names \cup DOMAIN TheBank(t).hogs

\* -------------------------------------------- two simulators in one process

\* Two threads, each with a builder of its own name, activate once each and
\* drop what they hold; configfs is mounted from the start.
PairBuilders ==
    [t \in Threads |-> IF t = 1 THEN [name |-> {NameA}, banks |-> <<BankBoth>>]
                       ELSE [name |-> {NameB}, banks |-> <<BankLow>>]]

PairInit ==
    /\ dirs = EmptyMap
    /\ attrs = EmptyMap
    /\ sysfs = EmptyMap
    /\ loaded = TRUE
    /\ mounts = <<ProcLine, ConfigfsLine(DefaultMount)>>
    /\ NAME_COUNT = U32Zero
    /\ issued = NoneIssued
    /\ faults = MaxFaults
    /\ modprobes = 0
    /\ pc = [t \in Threads |-> "idle"]
    /\ builder = PairBuilders
    /\ sim = [t \in Threads |-> NoSim]
    /\ held = [t \in Threads |-> {}]
    /\ torn = {}
    /\ lv = [t \in Threads |-> LvInit]
    /\ result = [t \in Threads |-> NoResult]
    /\ calls = [t \in Threads |-> 1]
    /\ ops = [t \in Threads |-> {}]

PairNext ==
    \E t \in Threads :
      \/ LiveStart(t) \/ FindFast(t) \/ SimExists(t) \/ CreateSimDir(t)
      \/ Setup(t) \/ WriteLive(t) \/ ReadAttrs(t)
      \/ DropSim(t) \/ Cleanup(t)

PairSpec == PairInit /\ [][PairNext]_vars

\* The name of the simulator of thread t.
NameOf(t) == CHOOSE n \in builder[t].name : TRUE

\* The directories and the attribute files below the top-level directory of
\* the name n.
PathsBelow(n) ==
    [dirs |-> {d \in DOMAIN dirs : d[1] = n},
     files |-> [k \in {a \in DOMAIN attrs : a[1][1] = n} |-> attrs[k]]]

\* Thread t takes this step.
Acts(t) == pc'[t] # pc[t] \/ lv'[t] # lv[t] \/ ops'[t] # ops[t]

\* C17: simulators with different names are independent under every
\* interleaving of their activations and teardowns. No activation finds the
\* other's simulator in its way, an activation fails only when one of its own
\* system calls fails or its own device path is a symbolic link, and no step
\* of one thread creates, writes or removes a path below the top-level
\* directory of the other.
C17_Independent ==
    /\ [](\A t \in Threads :
            /\ \A op \in ops[t] : op[2][1] = NameOf(t)
            /\ result[t].kind = "Err" => (result[t].err = "IoError" /\ faults < MaxFaults)
            /\ result[t].kind = "Panic" => \E k \in 1..Len(lv[t].meta) : lv[t].meta[k]
            /\ \A d \in DOMAIN dirs : dirs[d] = t => d[1] = NameOf(t))
    /\ [][\A t, u \in Threads :
            (Acts(t) /\ u # t) => PathsBelow(NameOf(u))' = PathsBelow(NameOf(u))]_vars

\* Both simulators are live at once, each with its own tree.
C17_Witness ==
    /\ \A t \in Threads :
         /\ held[t] # {}
         /\ result[t] = Ok(NameOf(t))
         /\ AttrText(SimDir(NameOf(t)), "live") = {"1"}
    /\ DirExists(HogDir(NameA, 0, 1))
    /\ DirExists(HogDir(NameB, 0, 2))

\* ------------------------------------------------- the order of a teardown

\* Where cleanup_configfs is once it has dealt with the live attribute: in
\* its removals, or waiting for the directory to go.
RemovalPcs == CleanupPcs \ {"c_exists", "c_live0"}

\* Thread t removes a directory in this step.
Removes(t) == \E op \in ops'[t] \ ops[t] : op[1] = "rmdir"

\* C21: the teardown of a tree that exists writes "0" to live before it
\* removes any directory, and goes on to the removals even when that write
\* fails: a directory is removed only by a thread that is past the write, the
\* step that finds the tree and the step of the write remove nothing, the
\* write leaves live at "0" or, failing, everything as it was, and in both
\* cases the bank loop is next.
C21_LiveClearedFirst ==
    /\ [](\A t \in Threads :
            (pc[t] \in RemovalPcs /\ DirExists(Top(t))) =>
               (AttrText(Top(t), "live") = {"0"} \/ faults < MaxFaults))
    /\ [][\A t \in Threads :
            /\ Removes(t) => pc[t] \in RemovalPcs
            /\ (pc[t] = "c_exists" /\ DirExists(Top(t)) /\ pc'[t] # pc[t]) =>
                 (pc'[t] = "c_live0" /\ UNCHANGED <<dirs, attrs>>)
            /\ (pc[t] = "c_live0" /\ pc'[t] # pc[t]) =>
                 /\ pc'[t] \in {"c_bank", "c_rmdir"}
                 /\ dirs' = dirs
                 /\ \/ AttrText(Top(t), "live")' = {"0"}
                    \/ attrs' = attrs /\ faults' = faults - 1]_vars

\* The write of "0" to live failed, live still reads "1", and the teardown has
\* removed a hog directory all the same.
C21_Witness ==
    \E t \in Threads :
      /\ pc[t] \in RemovalPcs
      /\ AttrText(Top(t), "live") = {"1"}
      /\ \E op \in ops[t] : op[1] = "rmdir" /\ op[2][4] = 1

\* A thread that is in cleanup_configfs takes its next step: it is scheduled,
\* and the loop that waits for the directory goes round.
TeardownSpec == Spec /\ \A t \in Threads : WF_vars(Cleanup(t))

\* What is there of the tree of the name n.
TreeOf(n) == {d \in DOMAIN dirs : d[1] = n}

\* C22: teardown covers everything activation can create and terminates.
\* Whatever the configuration and wherever the activation stopped, a teardown
\* that starts when no system call fails for a reason of its own (removing a
\* directory succeeds exactly when it has no subdirectory) comes to its end
\* with no directory of the tree left; and a teardown never returns while a
\* directory of its tree is there.
C22_TeardownCovers ==
    /\ \A t \in Threads :
         (pc[t] = "c_exists" /\ faults = 0)
            ~> (pc[t] \notin CleanupPcs /\ TreeOf(lv[t].name) = {})
    /\ [][\A t \in Threads :
            CleanupReturns(t) => (TreeOf(sim[t].name) = {})']_vars

\* An activation stopped at the write of a hog's direction, on a line that
\* has a name as well; its teardown removed the hog, the line, the bank and
\* the directory of the Sim, and the error of the activation was returned.
C22_Witness ==
    \E t \in Threads :
      /\ Returned(t, "IoError")
      /\ faults = 0
      /\ <<"write", HogDir(lv[t].name, 0, 1), "name">> \in ops[t]
      /\ <<"write", LineDir(lv[t].name, 0, 1), "name">> \in ops[t]
      /\ <<"write", HogDir(lv[t].name, 0, 1), "direction">> \notin ops[t]
      /\ {<<"rmdir", d, "">> : d \in {HogDir(lv[t].name, 0, 1), LineDir(lv[t].name, 0, 1),
                                     BankDir(lv[t].name, 0), SimDir(lv[t].name)}}
           \subseteq ops[t]
      /\ TreeOf(lv[t].name) = {}

\* ------------------------------------------- two threads toggle one chip

\* The threads share the chip of one Simpleton (the methods of Chip take
\* &self) and call toggle on it.
ToggleInit == ChipStart(Threads)

ToggleNext == \E t \in Threads : ToggleGet(t) \/ ToggleSet(t)

ToggleSpec == ToggleInit /\ [][ToggleNext]_vars

\* The successful toggles of line o that hist keeps of thread t.
Toggles(t, o) ==
    {e \in {lv[t].hist[k] : k \in 1..Len(lv[t].hist)} :
       e.op = "toggle" /\ e.res.kind = "Ok" /\ e.o = o}

\* C23: toggle is a read followed by a separate write. Two toggles of a line
\* by two threads that read the same level wrote the same inverse and
\* returned the same level (the update of one is lost); two toggles of which
\* the second read what the first had written, one after the other, restore
\* the level the first found, and each toggle leaves the inverse of what it
\* read.
C23_ToggleNotAtomic ==
    \A t, u \in Threads : \A o \in Offsets :
      \A a \in Toggles(t, o), b \in Toggles(u, o) :
        /\ ShownPull(a.after) # ShownPull(a.before)
        /\ ShownPull(a.after) = {a.res}
        /\ (t # u /\ ShownPull(a.before) = ShownPull(b.before)) =>
              (a.res = b.res /\ ShownPull(a.after) = ShownPull(b.after))
        /\ b.before = a.after =>
              (ShownPull(b.after) = ShownPull(a.before) /\ a.res # b.res)

\* Two toggles of line 0 are over, one by each thread; both read Low and both
\* wrote High: the pull is inverted once, not restored.
C23_Witness ==
    \E a \in Toggles(1, 0), b \in Toggles(2, 0) :
      /\ ShownPull(a.before) = {OkLevel("Low")}
      /\ ShownPull(b.before) = {OkLevel("Low")}
      /\ a.res = OkLevel("High") /\ b.res = OkLevel("High")
      /\ pc = [t \in Threads |-> "idle"]
      /\ calls = [t \in Threads |-> MaxOps - 1]
      /\ ShownPull(FileText(ControlFile(TheChip(1), 0, "pull"))) = {OkLevel("High")}

\* ------------------------------------------- two activations of one name

\* Two threads activate builders of the same name, once each, and drop what
\* they hold.
RaceInit ==
    /\ dirs = EmptyMap
    /\ attrs = EmptyMap
    /\ sysfs = EmptyMap
    /\ loaded = TRUE
    /\ mounts = <<ProcLine, ConfigfsLine(DefaultMount)>>
    /\ NAME_COUNT = U32Zero
    /\ issued = NoneIssued
    /\ faults = MaxFaults
    /\ modprobes = 0
    /\ pc = [t \in Threads |-> "idle"]
    /\ builder = [t \in Threads |-> [name |-> {NameA}, banks |-> <<BankSplit>>]]
    /\ sim = [t \in Threads |-> NoSim]
    /\ held = [t \in Threads |-> {}]
    /\ torn = {}
    /\ lv = [t \in Threads |-> LvInit]
    /\ result = [t \in Threads |-> NoResult]
    /\ calls = [t \in Threads |-> 1]
    /\ ops = [t \in Threads |-> {}]

RaceSpec == RaceInit /\ [][PairNext]_vars

\* Thread t is at the existence check or at the creation of the directory,
\* and the directory of its name is there: it has lost the race.
Loses(t) == pc[t] \in {"exists", "mkdir"} /\ DirExists(SimDir(lv[t].name))

\* C24: when two activations of the same name race, at most one of them
\* returns a live Sim. The one that finds the directory there, at the check
\* or at the creation, returns an error (SimulatorExists or IoError) in that
\* step, does not panic, has no Sim and runs no teardown; and a directory is
\* removed, and a live flag cleared, only by the thread that made the tree.
C24_OneWinner ==
    /\ [](/\ \E t \in Threads : held[t] = {}
          /\ \A t \in Threads :
               result[t].kind = "Panic" => \E k \in 1..Len(lv[t].meta) : lv[t].meta[k])
    /\ [][\A t \in Threads :
            /\ (Loses(t) /\ pc'[t] # pc[t]) =>
                 /\ pc'[t] = "idle"
                 /\ result'[t].kind = "Err"
                 /\ result'[t].err =
                      (IF pc[t] = "exists" THEN "SimulatorExists" ELSE "IoError")
                 /\ sim'[t] = NoSim
                 /\ held'[t] = {}
                 /\ UNCHANGED <<dirs, attrs, ops>>
            /\ Acts(t) =>
                 /\ \A d \in DOMAIN dirs \ DOMAIN dirs' : dirs[d] = t
                 /\ \A k \in DOMAIN attrs :
                      (k[2] = "live" /\ attrs[k] = "1" /\ AttrText(k[1], "live")' # {"1"})
                         => dirs[k[1]] = t]_vars

\* One thread holds the live Sim, its tree intact; the other passed the
\* existence check, failed at the creation of the directory and returned
\* IoError.
C24_Witness ==
    \E t, u \in Threads :
      /\ held[t] # {}
      /\ Returned(u, "IoError")
      /\ ops[u] = {}
      /\ faults = MaxFaults
      /\ AttrText(SimDir(NameA), "live") = {"1"}
      /\ TreeOf(NameA) = TreeDirs(CHOOSE s \in held[t] : TRUE)

\* ------------------------------------------------ what the locator returns

\* C25: the path find_configfs has returned to an activation is a path that
\* an existence check of that call found to exist.
C25_ReturnedPathObserved ==
    \A t \in Threads : lv[t].path # "" => lv[t].path \in lv[t].seen

\* C26: a call of find_configfs that finds the default path at its first
\* check returns that path in the same step: it has run no modprobe, read no
\* mount table and slept not once, in that call, and the step runs no command.
C26_FastPath ==
    /\ [](\A t \in Threads :
            (lv[t].path # "" /\ lv[t].nmod = 0) =>
                /\ lv[t].path = DefaultPath
                /\ lv[t].reads = 0 /\ lv[t].sleeps = 0 /\ lv[t].attempt = 0)
    /\ [][\A t \in Threads :
            (pc[t] = "find" /\ pc'[t] # "find" /\ PathExists(DefaultPath)) =>
                /\ pc'[t] = "exists"
                /\ lv'[t].path = DefaultPath
                /\ lv'[t].nmod = 0 /\ lv'[t].reads = 0 /\ lv'[t].sleeps = 0
                /\ UNCHANGED <<modprobes, loaded, mounts>>]_vars

\* An activation went live on the fast path in a process that had already
\* loaded the module in an earlier activation.
C26_Witness ==
    \E t \in Threads :
      /\ held[t] # {}
      /\ result[t].kind = "Ok"
      /\ lv[t].path = DefaultPath
      /\ lv[t].nmod = 0
      /\ modprobes = 1

\* ------------------------------------------- the line directory of a hog

\* The directories of lines that thread t makes in a step.
NewLines(t) ==
    {d \in DOMAIN dirs' \ DOMAIN dirs : dirs'[d] = t /\ d[3] # None /\ d[4] = 0}

\* C27: setup_configfs creates the directory of a line once. The hog loop
\* creates it only for an offset that has no name, and then it is not there,
\* so that only an injected failure makes the creation fail; for an offset
\* that has a name the hog loop finds the directory that the name loop made
\* and goes on to the hog directory at once. A step that makes a line
\* directory is the name loop's for a named offset and the hog loop's for a
\* hogged offset without a name, and the activation has not made it before.
C27_LineDirOnce ==
    /\ [](\A t \in Threads :
            /\ pc[t] = "hog_mkline" =>
                 /\ lv[t].o \in DOMAIN CurCfg(t).hogs \ DOMAIN CurCfg(t).names
                 /\ ~DirExists(CurLine(t))
                 /\ <<"mkdir", CurLine(t), "">> \notin ops[t]
            /\ pc[t] = "hog_dir" =>
                 /\ DirExists(CurLine(t))
                 /\ <<"mkdir", CurLine(t), "">> \in ops[t])
    /\ [][\A t \in Threads :
            /\ \A d \in NewLines(t) :
                 /\ <<"mkdir", d, "">> \notin ops[t]
                 /\ d = LineDir(sim[t].name, lv[t].i, d[3])
                 /\ IF d[3] \in DOMAIN CurCfg(t).names
                    THEN pc[t] = "name_dir"
                    ELSE pc[t] = "hog_mkline" /\ d[3] \in DOMAIN CurCfg(t).hogs
            /\ (pc[t] = "hog_line" /\ pc'[t] # "hog_line") =>
                 /\ lv'[t].o \in DOMAIN CurCfg(t).hogs
                 /\ pc'[t] = (IF lv'[t].o \in DOMAIN CurCfg(t).names
                              THEN "hog_dir" ELSE "hog_mkline")
                 /\ UNCHANGED <<dirs, result>>]_vars

\* The hog loop is about to make the hog directory of an offset that has a
\* name as well, in the line directory that the name loop made, and no call
\* has failed.
C27_Witness ==
    \E t \in Threads :
      /\ pc[t] = "hog_dir"
      /\ lv[t].o \in DOMAIN CurCfg(t).names
      /\ DirExists(CurLine(t))
      /\ faults = MaxFaults

\* ------------------------------------------- activations without a name

\* A process whose threads take one builder without a name live, again and
\* again, drop the simulators or keep them, and call unique_name besides; no
\* system call fails.
FreshInit ==
    /\ dirs = EmptyMap
    /\ attrs = EmptyMap
    /\ sysfs = EmptyMap
    /\ loaded = TRUE
    /\ mounts = <<ProcLine, ConfigfsLine(DefaultMount)>>
    /\ NAME_COUNT = U32Zero
    /\ issued = NoneIssued
    /\ faults = 0
    /\ modprobes = 0
    /\ pc = [t \in Threads |-> "idle"]
    /\ builder = [t \in Threads |-> [name |-> {}, banks |-> <<BankSplit>>]]
    /\ sim = [t \in Threads |-> NoSim]
    /\ held = [t \in Threads |-> {}]
    /\ torn = {}
    /\ lv = [t \in Threads |-> LvInit]
    /\ result = [t \in Threads |-> NoResult]
    /\ calls = [t \in Threads |-> MaxLive]
    /\ ops = [t \in Threads |-> {}]

FreshNext ==
    \E t \in Threads :
      \/ LiveStart(t) \/ FindFast(t) \/ SimExists(t) \/ CreateSimDir(t)
      \/ Setup(t) \/ WriteLive(t) \/ ReadAttrs(t)
      \/ DropSim(t) \/ Cleanup(t)
      \/ UniqueNameMany(t)

FreshSpec == FreshInit /\ [][FreshNext]_vars

\* C28: an activation of a builder without a name does not fail with
\* SimulatorExists.
C28_NeverSimulatorExists ==
    \A t \in Threads :
        ~(result[t].kind = "Err" /\ result[t].err = "SimulatorExists")

\* -------------------------------------------------- the mount-table lookup

\* Lines a /proc/mounts may hold, and how many of them.
MaxTable == 3

\* A line is the pieces of its text, each a run of ASCII whitespace or a run
\* of other characters; a line that is not valid UTF-8 cannot be read.
AsciiWhitespace == {" ", "\t"}
TextLine(text) == [ok |-> TRUE, text |-> text]
InvalidLine == [ok |-> FALSE, text |-> <<>>]

ProcText == <<"proc", " ", "/proc", " ", "proc", " ", "rw,relatime", " ", "0", " ", "0">>
DefaultText ==
    <<"configfs", " ", DefaultMount, " ", "configfs", " ", "rw,relatime", " ", "0", " ", "0">>
AltText ==
    <<"\t", "none", "\t", AltMount, " ", " ", "configfs", " ", "rw", "\t", "0", " ", "0", " ">>
ShortText == <<"configfs", " ", AltMount, " ", "configfs">>
FiveText == <<"configfs", " ", AltMount, " ", "configfs", " ", "rw", " ", "0">>
NamedText == <<"/dev/sda1", " ", "configfs", " ", "ext4", " ", "rw", " ", "0", " ", "0">>
EmptyText == <<>>

MountLines ==
    {TextLine(x) : x \in {ProcText, DefaultText, AltText, ShortText, FiveText,
                          NamedText, EmptyText}}
      \cup {InvalidLine}
MountFiles == UNION {[1..n -> MountLines] : n \in 0..MaxTable}

\* line.split_ascii_whitespace().collect()
SplitAsciiWhitespace(text) == SelectSeq(text, LAMBDA p : p \notin AsciiWhitespace)

\* r.lines().map_while(|x| x.ok()): the lines before the first one that
\* cannot be read
MapWhileOk(file) ==
    LET bad == {k \in 1..Len(file) : ~file[k].ok}
    IN  IF bad = {} THEN file
        ELSE SubSeq(file, 1, (CHOOSE k \in bad : \A j \in bad : k <= j) - 1)

\* configfs_mountpoint on a /proc/mounts that holds the lines of file
MountpointOf(file, opened) ==
    LET lines == MapWhileOk(file)
    IN  ConfigfsMountpoint([k \in 1..Len(lines) |-> SplitAsciiWhitespace(lines[k].text)],
                           opened)

\* A process whose threads look the mount point up, once each, in a
\* /proc/mounts that does not change.
MountInit ==
    /\ dirs = EmptyMap
    /\ attrs = EmptyMap
    /\ sysfs = EmptyMap
    /\ loaded = TRUE
    /\ mounts \in MountFiles
    /\ NAME_COUNT = U32Zero
    /\ issued = NoneIssued
    /\ faults = MaxFaults
    /\ modprobes = 0
    /\ pc = [t \in Threads |-> "idle"]
    /\ builder = [t \in Threads |-> [name |-> {}, banks |-> <<BankPlain>>]]
    /\ sim = [t \in Threads |-> NoSim]
    /\ held = [t \in Threads |-> {}]
    /\ torn = {}
    /\ lv = [t \in Threads |-> LvInit]
    /\ result = [t \in Threads |-> NoResult]
    /\ calls = [t \in Threads |-> 1]
    /\ ops = [t \in Threads |-> {}]

\* configfs_mountpoint(): Some(mount point) or None; File::open may fail
MountLookup(t) ==
    /\ pc[t] = "idle"
    /\ calls[t] > 0
    /\ calls' = [calls EXCEPT ![t] = @ - 1]
    /\ \E opened \in Outcomes(TRUE) :
         /\ Charge(TRUE, opened)
         /\ LET mp == MountpointOf(mounts, opened)
            IN  /\ Set(t, [LvInit EXCEPT !.reads = 1,
                                         !.cfgfs = IF mp # {} THEN CHOOSE m \in mp : TRUE
                                                   ELSE ""])
                /\ result' = [result EXCEPT ![t] =
                                Res(IF mp # {} THEN "Some" ELSE "None",
                                    IF opened THEN "" ELSE "open", NoName, "")]
    /\ UNCHANGED <<dirs, attrs, sysfs, loaded, mounts, NAME_COUNT, issued, modprobes,
                   pc, builder, sim, held, torn, ops>>

MountNext == \E t \in Threads : MountLookup(t)

MountSpec == MountInit /\ [][MountNext]_vars

\* What the lookup of thread t returned: the mount point, or nothing.
Found(t) == IF result[t].kind = "Some" THEN {lv[t].cfgfs} ELSE {}

\* The fields of a line, delimited by whitespace: how many there are, and the
\* n-th of them.
FieldAt(text, p) == text[p] \notin AsciiWhitespace
NumFields(text) == Cardinality({p \in 1..Len(text) : FieldAt(text, p)})
Field(text, n) ==
    {text[p] : p \in {q \in 1..Len(text) :
                        /\ FieldAt(text, q)
                        /\ Cardinality({r \in 1..(q - 1) : FieldAt(text, r)}) = n - 1}}

\* The lines of the file whose third field is "configfs" and which have at
\* least `least` fields, among those before the first `upto` says is
\* unreadable.
ConfigfsAmong(file, least, upto) ==
    {k \in 1..upto : /\ file[k].ok
                     /\ Field(file[k].text, 3) = {"configfs"}
                     /\ NumFields(file[k].text) >= least}
Readable(file) ==
    Cardinality({k \in 1..Len(file) : \A j \in 1..k : file[j].ok})
FirstOf(file, among) ==
    IF among = {} THEN {}
    ELSE Field(file[CHOOSE k \in among : \A j \in among : k <= j].text, 2)

\* C29 as the specification has it: the lookup returns the second field of
\* the first line of the table whose third field is "configfs", and nothing
\* when the table has no such line.
C29_ThirdFieldDecides ==
    \A t \in Threads :
        (lv[t].reads = 1 /\ result[t].err = "") =>
            Found(t) = FirstOf(mounts, ConfigfsAmong(mounts, 3, Len(mounts)))

\* C29: the lookup returns the second field of the first line that has at
\* least six fields and "configfs" as the third, among the lines before the
\* first one that cannot be read, and nothing when there is no such line or
\* the table cannot be opened.
C29_SixFieldLines ==
    \A t \in Threads :
        lv[t].reads = 1 =>
            Found(t) = IF result[t].err = ""
                       THEN FirstOf(mounts, ConfigfsAmong(mounts, 6, Readable(mounts)))
                       ELSE {}

\* A lookup passed over a line of three fields whose third is "configfs" and
\* returned the mount point of a later line of six.
C29_Witness ==
    \E t \in Threads :
      /\ lv[t].reads = 1
      /\ Len(mounts) >= 2
      /\ mounts[1] = TextLine(ShortText)
      /\ mounts[2] = TextLine(DefaultText)
      /\ Found(t) = {DefaultMount}

====
